---- MODULE Spec2Model ----
(***************************************************************************)
(* one-api relay gateway: the racing dispatcher asyncHTTPDo and the        *)
(* Redis-lease leader election, as state machines.                         *)
(***************************************************************************)
EXTENDS Integers, Sequences, FiniteSets, TLC

(* ---------------------------------------------------------------------- *)
(* Bounds                                                                  *)
(* ---------------------------------------------------------------------- *)
\* largest async_num a channel is configured with
MaxAsyncNum == 2
\* number of nodes running the election loop
NumNodes == 2
\* largest configured leader_election.lease_seconds
MaxLeaseSeconds == 2
\* longest instance id, in characters
MaxIdLen == 2
\* number of configuration changes written to the database
MaxVersion == 2
\* largest token count (estimated prompt, max_tokens, reported usage)
MaxTokens == 2
\* common.PreConsumedQuota, the configured estimate when max_tokens is absent
PreConsumedQuota == 1
\* ratios are multiples of 1/RatioDen
RatioDen == 2
\* number of channel ids
MaxChannels == 2
\* number of relay calls whose goroutines run concurrently on one token
MaxCalls == 2
\* largest model, group or completion ratio, in units of 1/RatioDen
MaxRatio == 2
\* number of concurrent callers of GetEnableChannels
MaxCallers == 2
\* largest number of published messages not yet received
MaxPending == 2

(* ---------------------------------------------------------------------- *)
(* State of one asyncHTTPDo call                                           *)
(* ---------------------------------------------------------------------- *)
VARIABLES
    asyncNum,        \* parameter asyncNum
    asynctimerchan,  \* build: TRUE = time.Timer channel is buffered (Go < 1.23)
    pc,              \* the calling goroutine: "launch", "select", "returned"
    attPc,           \* attempt goroutine -> "idle","do","got","send","defer","exit"
    attRes,          \* attempt goroutine -> outcome of timeoutHTTPClient.Do
    cancelFuncs,     \* keys of the map cancelFuncs
    cancelInvoked,   \* attempts whose cancel function has been called
    wg,              \* counter of the sync.WaitGroup
    closerPc,        \* the wg.Wait goroutine: "idle","wait","stop","closeDone","closeResp","end"
    done,            \* TRUE once channel done is closed
    respChClosed,    \* TRUE once channel respCh is closed
    timer,           \* "armed", "fired" (value ready on timer.C), "stopped", "drained"
    resps,           \* slice resps (attempt ids of the queued responses)
    lastErr,         \* attempt whose error is in lastErr, or Nil
    retResp,         \* returned *http.Response (attempt id) or Nil
    retErr,          \* returned error (attempt id) or Nil
    closed,          \* responses whose Body.Close was called by the dispatcher
    delivered,       \* history: responses received by the dispatcher loop, in order
    clientGone       \* TRUE once the inbound request's context is cancelled

dvars == <<asyncNum, asynctimerchan, pc, attPc, attRes, cancelFuncs,
           cancelInvoked, wg, closerPc, done, respChClosed, timer, resps,
           lastErr, retResp, retErr, closed, delivered, clientGone>>

(* ---------------------------------------------------------------------- *)
(* State of the leader election: one Redis, NumNodes processes             *)
(* ---------------------------------------------------------------------- *)
VARIABLES
    leaseSecondsCfg, \* viper.GetInt("leader_election.lease_seconds")
    kvVal,           \* value stored at leaderKey, or Nil when the key is absent
    kvTtl,           \* remaining time to live of leaderKey, in ticks
    age,             \* node -> ticks since its last loop iteration (saturating)
    isLeader,        \* node -> local isLeader
    IsMasterNode,    \* node -> config.IsMasterNode of that process
    crashed,         \* node -> the process has died
    frozen,          \* node -> the process is not being scheduled
    sinceChange,     \* ticks since the value at leaderKey last changed (saturating)
    lastDemoted      \* history: the node demoted in the current tick's latest iteration, or Nil

evars == <<leaseSecondsCfg, kvVal, kvTtl, age, isLeader, IsMasterNode,
           crashed, frozen, sinceChange, lastDemoted>>

(* ---------------------------------------------------------------------- *)
(* What StartLeaderElection reads before it starts the loop, per process   *)
(* ---------------------------------------------------------------------- *)
VARIABLES
    RedisEnabled,    \* node -> config.RedisEnabled
    enableFlag,      \* node -> leader_election.enable: "unset", "true", "false"
    clientReady,     \* node -> rds.GetRedisClient() != nil
    electionLoop     \* node -> "notCalled", "returned" (no loop), "running"

svars == <<RedisEnabled, enableFlag, clientReady, electionLoop>>

(* ---------------------------------------------------------------------- *)
(* State of the realtime sync subscriber of one process                    *)
(* ---------------------------------------------------------------------- *)
VARIABLES
    InstanceID,      \* config.InstanceID of the receiving process
    syncPc,          \* subscriber goroutine: "receive", "backoff", "dead"
    msgOrigin,       \* instance id of the publisher of the last message
    msgPayload,      \* msg.Payload of the last message, as published
    msgChannel,      \* msg.Channel of the last message
    calls,           \* reloads invoked while handling the last message, in order
    panics,          \* reloads that panicked while handling the last message
    errs,            \* reloads that returned an error while handling it
    everPanicked,    \* TRUE once a reload has panicked
    dbVersion,       \* version of the configuration in the database
    optionsVer,      \* database version the in-memory options were loaded from
    channelVer,      \* ... the channel group index
    pricingVer,      \* ... the pricing table
    ownedByVer,      \* ... the model-owned-by table
    pricingPresent,  \* model.PricingInstance != nil
    ownedByPresent   \* model.ModelOwnedBysInstance != nil

rtvars == <<InstanceID, syncPc, msgOrigin, msgPayload, msgChannel, calls, panics,
            errs, everPanicked, dbVersion, optionsVer, channelVer, pricingVer,
            ownedByVer, pricingPresent, ownedByPresent>>

(* ---------------------------------------------------------------------- *)
(* State of one relay call (relayTextHelper) and of the quota ledger       *)
(* ---------------------------------------------------------------------- *)
VARIABLES
    promptTokens,     \* counted prompt tokens of the request
    maxTokens,        \* textRequest.MaxTokens
    modelRatio,       \* common.GetModelRatio(model), in units of 1/RatioDen
    groupRatio,       \* common.GetGroupRatio(group), in units of 1/RatioDen
    completionRatio,  \* common.GetCompletionRatio(model), in units of 1/RatioDen
    relayPc,          \* "start","checked","decreased","preconsumed","built",
                      \* "handling","returned"
    relayErr,         \* error code the call returned, "none" if none
    userQuota,        \* local userQuota (the cached quota as read)
    preConsumedQuota, \* local preConsumedQuota
    usagePrompt,      \* textResponse.Usage.PromptTokens
    usageCompletion,  \* textResponse.Usage.CompletionTokens
    sent,             \* TRUE once the upstream request was dispatched
    refundPc,         \* refund goroutine: "none", "pending", "done", "failed"
    settlePc,         \* settlement goroutine: "none", "pending", "done"
    quota,            \* quota computed by the settlement, Nil before
    touched,          \* records the settlement has updated
    userCache,        \* the user's cached quota
    tokenRemain,      \* the token's persisted remaining quota
    userCache0,       \* history: userCache before the call
    tokenRemain0,     \* history: tokenRemain before the call
    userUsed,         \* the user's used-quota
    channelUsed,      \* the channel's used-quota
    consumeLogs       \* quotas of the consume-log records written

rvars == <<promptTokens, maxTokens, modelRatio, groupRatio,
           completionRatio, relayPc, relayErr, userQuota, preConsumedQuota,
           usagePrompt, usageCompletion, sent, refundPc, settlePc, quota,
           touched, userCache, tokenRemain, userCache0, tokenRemain0, userUsed,
           channelUsed, consumeLogs>>

(* ---------------------------------------------------------------------- *)
(* The inbound request of one relayTextHelper call and its channel          *)
(* ---------------------------------------------------------------------- *)
VARIABLES
    relayMode,       \* parameter relayMode
    reqModel,        \* field model of the inbound body
    fieldEmpty,      \* the field relayMode requires is empty in the inbound body
    modelMapping,    \* c.GetString("model_mapping")
    channelType,     \* c.GetInt("channel")
    inAuth,          \* inbound header Authorization, or Absent
    tencentSign,     \* what getTencentSign returns for this request
    textModel,       \* textRequest.Model
    isModelMapped    \* local isModelMapped

qvars == <<relayMode, reqModel, fieldEmpty, modelMapping, channelType, inAuth,
           tencentSign, textModel, isModelMapped>>

(* ---------------------------------------------------------------------- *)
(* The channel table and the ability index derived from it                  *)
(* ---------------------------------------------------------------------- *)
VARIABLES
    chanStatus,      \* channel id -> column status, or "none" when there is no row
    chanModels,      \* channel id -> the models of column models
    abilities,       \* rows of the ability table: [channel, model, enabled]
    dbFailed         \* TRUE once a database call of a channel operation failed

cvars == <<chanStatus, chanModels, abilities, dbFailed>>

(* ---------------------------------------------------------------------- *)
(* The settlement and refund goroutines of concurrent calls on one token    *)
(* ---------------------------------------------------------------------- *)
VARIABLES
    ledgerRemain,    \* persisted remaining quota of the token
    ledgerInit,      \* its value before the goroutines started
    callPc,          \* goroutine -> "none", "pending", "done", "failed"
    callDelta,       \* goroutine -> the delta it passes to PostConsumeTokenQuota
    callSeen         \* goroutine -> the remaining quota when it was started

lvars == <<ledgerRemain, ledgerInit, callPc, callDelta, callSeen>>

(* ---------------------------------------------------------------------- *)
(* The warm-up goroutine of StartRealtimeSync                               *)
(* ---------------------------------------------------------------------- *)
VARIABLES
    warmPc,          \* "none", "sleeping", "options" (safeReloadOptions returned),
                     \* "done" (safeReloadChannels returned)
    warmRuns         \* number of warm loads completed

wvars == <<warmPc, warmRuns>>

(* ---------------------------------------------------------------------- *)
(* The request bodies of one asyncHTTPDo call                               *)
(* ---------------------------------------------------------------------- *)
VARIABLES
    bodyBytes,       \* local bodyBytes: what io.ReadAll(req.Body) returned
    readerPos,       \* body reader -> number of its bytes already read
    attBody          \* attempt -> the bytes its request body yielded to Do

bvars == <<bodyBytes, readerPos, attBody>>

(* ---------------------------------------------------------------------- *)
(* Concurrent GetEnableChannels calls, the lock key and the cached list     *)
(* ---------------------------------------------------------------------- *)
VARIABLES
    lockTtl,         \* seconds left of key channel:enable:list:lock, 0 when absent
    lockOwner,       \* history: the caller whose SetNX created the key, or Nil
    cacheList,       \* the Redis list channel:enable:list
    getPc,           \* caller -> "idle", "locked", "populate", "release", "done"
    getPath,         \* caller -> "none", "db", "cache", "populated", "dbError"
    wroteCache,      \* history: callers that pushed to the cached list
    releasedOthers   \* history: callers whose Del did not remove a key of their own

gvars == <<lockTtl, lockOwner, cacheList, getPc, getPath, wroteCache, releasedOthers>>

(* ---------------------------------------------------------------------- *)
(* The two goroutines of StartRealtimeSync, a reload taking time            *)
(* ---------------------------------------------------------------------- *)
VARIABLES
    warmTask,        \* warm-up goroutine: "none", "sleeping", "inOptions",
                     \* "between", "inChannels", "finished"
    subTask,         \* subscriber goroutine: "none", "receive", "inOptions",
                     \* "inChannels"
    pending          \* topics of the published messages not yet received

xvars == <<warmTask, subTask, pending>>

(* ---------------------------------------------------------------------- *)
(* Concurrent relay calls of one user on the cached user quota              *)
(* ---------------------------------------------------------------------- *)
VARIABLES
    cachedQuota,     \* the user's cached quota
    quotaPc,         \* call -> "idle", "checked", "decreased", "rejected"
    quotaSeen,       \* call -> local userQuota
    quotaAmount      \* call -> local preConsumedQuota

uvars == <<cachedQuota, quotaPc, quotaSeen, quotaAmount>>

vars == <<dvars, evars, svars, rtvars, rvars, qvars, cvars, lvars, wvars, bvars,
          gvars, xvars, uvars>>

\* what an action of one component leaves alone
newOthers == <<gvars, xvars, uvars>>
dDoOthers == <<evars, svars, rtvars, rvars, qvars, cvars, lvars, wvars, newOthers>>
dOthers == <<dDoOthers, bvars>>
eOthers == <<dvars, svars, rtvars, rvars, qvars, cvars, lvars, wvars, bvars, newOthers>>
sOthers == <<dvars, rtvars, rvars, qvars, cvars, lvars, wvars, bvars, newOthers>>
rtOthers == <<dvars, evars, svars, rvars, qvars, cvars, lvars, wvars, bvars, newOthers>>
rOthers == <<dvars, evars, svars, rtvars, qvars, cvars, lvars, wvars, bvars, newOthers>>
qOthers == <<dvars, evars, svars, rtvars, cvars, lvars, wvars, bvars, newOthers>>
cOthers == <<dvars, evars, svars, rtvars, rvars, qvars, lvars, wvars, bvars, newOthers>>
lOthers == <<dvars, evars, svars, rtvars, rvars, qvars, cvars, wvars, bvars, newOthers>>
wOthers == <<dvars, evars, svars, rvars, qvars, cvars, lvars, bvars, newOthers>>
oldVars == <<dvars, evars, svars, rtvars, rvars, qvars, cvars, lvars, wvars, bvars>>
gOthers == <<oldVars, xvars, uvars>>
xOthers == <<oldVars, gvars, uvars>>
uOthers == <<oldVars, gvars, xvars>>

Nil == -1

\* attempt ids: 0..asyncNum-1 are reqs[i]; asyncNum is the escalation attempt
Attempts == 0..MaxAsyncNum
Esc == asyncNum
Initial == 0..(asyncNum - 1)

Outcomes == {"r200", "r500", "err", "panic"}
IsResp(i) == attRes[i] \in {"r200", "r500"}
Is200(i) == i # Nil /\ attRes[i] = "r200"

Range(s) == {s[k] : k \in 1..Len(s)}

\* context each attempt's request runs under: context.WithCancel(context.Background())
\* for reqs[i]; the escalation uses req as built by http.NewRequest (Background)
ParentCtx(i) == "background"

\* ctx.Done() of attempt i is closed
CtxDone(i) == cancelInvoked[i] \/ (ParentCtx(i) = "request" /\ clientGone)

EscalationEnabledAlways == asyncNum >= 1
\* if asyncNum > 1 { ... } in the timer case
EscalationEnabled == asyncNum > 1

(* ---------------------------------------------------------------------- *)
(* Leader election (StartLeaderElection)                                   *)
(* Time is counted in ticks of half a second, so that leaseTTL / 2 is      *)
(* exact for every whole number of lease seconds.                          *)
(* ---------------------------------------------------------------------- *)
Nodes == 1..NumNodes

DefaultLeaseSeconds == 15

\* leaseSeconds := viper.GetInt(...); if leaseSeconds <= 0 { leaseSeconds = 15 }
LeaseSeconds(cfg) == IF cfg <= 0 THEN DefaultLeaseSeconds ELSE cfg

\* leaseTTL := time.Duration(leaseSeconds) * time.Second
LeaseTTLOf(cfg) == 2 * LeaseSeconds(cfg)

\* renewInterval := leaseTTL / 2; if renewInterval < time.Second { = time.Second }
RenewIntervalOf(cfg) ==
    IF LeaseTTLOf(cfg) \div 2 < 2 THEN 2 ELSE LeaseTTLOf(cfg) \div 2

leaseTTL == LeaseTTLOf(leaseSecondsCfg)
renewInterval == RenewIntervalOf(leaseSecondsCfg)

\* a set-if-absent that gives the key no expiry (ttl 0: the key persists)
SetNXNoExpiry(val, ttl, n) ==
    IF val = Nil
    THEN [val |-> n, ttl |-> 0, ret |-> 1]
    ELSE [val |-> val, ttl |-> ttl, ret |-> 0]

\* client.SetNX(ctx, leaderKey, nodeID, leaseTTL) as Redis executes it
SetNX(val, ttl, n) ==
    IF val = Nil
    THEN [val |-> n, ttl |-> leaseTTL, ret |-> 1]
    ELSE [val |-> val, ttl |-> ttl, ret |-> 0]

\* a renewal that rewrites the key without comparing its value
RenewBySet(val, ttl, n) == [val |-> n, ttl |-> leaseTTL, ret |-> 1]

\* renewLua: GET == ARGV[1] ? PEXPIRE(KEYS[1], ARGV[2]) : 0
RenewLua(val, ttl, n) ==
    IF val = n
    THEN [val |-> val, ttl |-> leaseTTL, ret |-> 1]
    ELSE [val |-> val, ttl |-> ttl, ret |-> 0]

\* a follower that takes the role whatever the set-if-absent answers
AcquiredAlways(r, err) == TRUE

\* ok, err := client.SetNX(...).Result(); if ok { leader } else { follower }
Acquired(r, err) == ~err /\ r = 1

\* a leader that never demotes itself
StaysLeaderAlways(r, err) == TRUE

\* switch v := res.(type) { case int64: if v == 1 {stay} else {demote}; default: demote }
StaysLeader(r, err) == ~err /\ r = 1

\* how a Redis call can go: served and answered, never served, served but the
\* answer lost (the client sees a transport error in the last two)
NetOutcomes == {"ok", "reqLost", "replyLost"}

\* the bound of the saturating clocks age and sinceChange
Horizon == leaseTTL + renewInterval
Sat(x) == IF x >= Horizon THEN Horizon ELSE x

\* the election goroutine of node n exists and is being scheduled
Running(n) == electionLoop[n] = "running" /\ ~crashed[n] /\ ~frozen[n]
\* the loop starts with an iteration and sleeps renewInterval after each
Due(n) == age[n] >= renewInterval

EInit ==
    /\ leaseSecondsCfg \in 1..MaxLeaseSeconds
    /\ kvVal = Nil
    /\ kvTtl = 0
    /\ age = [n \in Nodes |-> renewInterval]
    /\ isLeader = [n \in Nodes |-> FALSE]
    /\ IsMasterNode \in [Nodes -> BOOLEAN]
    /\ crashed = [n \in Nodes |-> FALSE]
    /\ frozen = [n \in Nodes |-> FALSE]
    /\ sinceChange = 0
    /\ lastDemoted = Nil

\* the election when it is not running
EIdle ==
    /\ leaseSecondsCfg = 1
    /\ kvVal = Nil
    /\ kvTtl = 0
    /\ age = [n \in Nodes |-> 0]
    /\ isLeader = [n \in Nodes |-> FALSE]
    /\ IsMasterNode = [n \in Nodes |-> FALSE]
    /\ crashed = [n \in Nodes |-> TRUE]
    /\ frozen = [n \in Nodes |-> FALSE]
    /\ sinceChange = 0
    /\ lastDemoted = Nil

EnableFlags == {"unset", "true", "false"}

\* StartLeaderElection was called in every process and started its loop
SStarted ==
    /\ RedisEnabled = [n \in Nodes |-> TRUE]
    /\ enableFlag = [n \in Nodes |-> "unset"]
    /\ clientReady = [n \in Nodes |-> TRUE]
    /\ electionLoop = [n \in Nodes |-> "running"]

\* no process has called StartLeaderElection
SIdle ==
    /\ RedisEnabled = [n \in Nodes |-> FALSE]
    /\ enableFlag = [n \in Nodes |-> "unset"]
    /\ clientReady = [n \in Nodes |-> FALSE]
    /\ electionLoop = [n \in Nodes |-> "notCalled"]

\* the processes are configured, StartLeaderElection is still to be called
SInit ==
    /\ RedisEnabled \in [Nodes -> BOOLEAN]
    /\ enableFlag \in [Nodes -> EnableFlags]
    /\ clientReady \in [Nodes -> BOOLEAN]
    /\ electionLoop = [n \in Nodes |-> "notCalled"]

\* a start that does not look at leader_election.enable
StartsLoopIgnoringFlag(redis, flag, client) == redis /\ client

\* the three early returns of StartLeaderElection: the loop is started only
\* when none of them is taken
StartsLoop(redis, flag, client) ==
    /\ redis
    /\ ~(flag # "unset" /\ flag = "false")
    /\ client

\* StartLeaderElection() in process n
StartLeaderElection(n) ==
    /\ ~crashed[n]
    /\ electionLoop[n] = "notCalled"
    /\ electionLoop' = [electionLoop EXCEPT ![n] =
                          IF StartsLoop(RedisEnabled[n], enableFlag[n], clientReady[n])
                          THEN "running" ELSE "returned"]
    /\ UNCHANGED <<RedisEnabled, enableFlag, clientReady>>
    /\ UNCHANGED evars
    /\ UNCHANGED sOthers

\* one iteration of the for loop by node n: the Redis call (SetNX when follower,
\* the renew script when leader), the branch on its result, time.Sleep(renewInterval)
Iterate(n, net) ==
    /\ Running(n)
    /\ Due(n)
    /\ LET r == IF net = "reqLost" THEN [val |-> kvVal, ttl |-> kvTtl, ret |-> 0]
                ELSE IF isLeader[n] THEN RenewLua(kvVal, kvTtl, n)
                ELSE SetNX(kvVal, kvTtl, n)
           err == net # "ok"
       IN /\ kvVal' = r.val
          /\ kvTtl' = r.ttl
          /\ sinceChange' = IF r.val # kvVal THEN 0 ELSE sinceChange
          /\ IF ~isLeader[n]
             THEN /\ IsMasterNode' = [IsMasterNode EXCEPT ![n] = Acquired(r.ret, err)]
                  /\ isLeader' = [isLeader EXCEPT ![n] = Acquired(r.ret, err)]
                  /\ lastDemoted' = Nil
             ELSE /\ IsMasterNode' = [IsMasterNode EXCEPT
                                         ![n] = IF StaysLeader(r.ret, err) THEN @ ELSE FALSE]
                  /\ isLeader' = [isLeader EXCEPT ![n] = StaysLeader(r.ret, err)]
                  /\ lastDemoted' = IF StaysLeader(r.ret, err) THEN Nil ELSE n
    /\ age' = [age EXCEPT ![n] = 0]
    /\ UNCHANGED <<leaseSecondsCfg, crashed, frozen>>
    /\ UNCHANGED eOthers

\* half a second passes: every running node is inside its sleep, the lease key
\* ages and expires
Tick ==
    /\ \E n \in Nodes : ~crashed[n]
    /\ \A n \in Nodes : Running(n) => ~Due(n)
    /\ age' = [n \in Nodes |-> IF crashed[n] THEN age[n] ELSE Sat(age[n] + 1)]
    /\ IF kvVal # Nil /\ kvTtl = 1
       THEN /\ kvVal' = Nil
            /\ kvTtl' = 0
            /\ sinceChange' = 0
       ELSE /\ kvVal' = kvVal
            /\ kvTtl' = IF kvVal # Nil /\ kvTtl > 0 THEN kvTtl - 1 ELSE kvTtl
            /\ sinceChange' = Sat(sinceChange + 1)
    /\ lastDemoted' = Nil
    /\ UNCHANGED <<leaseSecondsCfg, isLeader, IsMasterNode, crashed, frozen>>
    /\ UNCHANGED eOthers

\* the process of node n stops being scheduled (GC pause, VM freeze, a Redis
\* call that hangs) for a time the code does not bound
Freeze(n) ==
    /\ Running(n)
    /\ frozen' = [frozen EXCEPT ![n] = TRUE]
    /\ UNCHANGED <<leaseSecondsCfg, kvVal, kvTtl, age, isLeader,
                   IsMasterNode, crashed, sinceChange, lastDemoted>>
    /\ UNCHANGED eOthers

\* the process of node n resumes
Thaw(n) ==
    /\ ~crashed[n]
    /\ frozen[n]
    /\ frozen' = [frozen EXCEPT ![n] = FALSE]
    /\ UNCHANGED <<leaseSecondsCfg, kvVal, kvTtl, age, isLeader,
                   IsMasterNode, crashed, sinceChange, lastDemoted>>
    /\ UNCHANGED eOthers

\* the process of node n dies; its memory is gone
Crash(n) ==
    /\ ~crashed[n]
    /\ crashed' = [crashed EXCEPT ![n] = TRUE]
    /\ frozen' = [frozen EXCEPT ![n] = FALSE]
    /\ age' = [age EXCEPT ![n] = 0]
    /\ isLeader' = [isLeader EXCEPT ![n] = FALSE]
    /\ IsMasterNode' = [IsMasterNode EXCEPT ![n] = FALSE]
    /\ UNCHANGED <<leaseSecondsCfg, kvVal, kvTtl, sinceChange, lastDemoted>>
    /\ UNCHANGED eOthers

ENext ==
    \/ \E n \in Nodes, net \in NetOutcomes : Iterate(n, net)
    \/ Tick
    \/ \E n \in Nodes : Freeze(n)
    \/ \E n \in Nodes : Thaw(n)
    \/ \E n \in Nodes : Crash(n)

(* ---------------------------------------------------------------------- *)
(* Realtime sync (StartRealtimeSync): the subscriber goroutine             *)
(* Strings are sequences of characters.                                    *)
(* ---------------------------------------------------------------------- *)
Sep == "|"
Chars == {"a", Sep}
SeqsUpTo(S, n) == UNION {[1..k -> S] : k \in 0..n}
Ids == SeqsUpTo(Chars, MaxIdLen)
\* free texts of a message: empty, plain, holding the separator
Texts == {<<>>, <<"a">>, <<Sep>>}
\* instance ids that do not contain the separator
PlainIds == {id \in Ids : \A k \in 1..Len(id) : id[k] # Sep}

Topics == {"options_sync", "channels_sync"}

\* what a publisher sends: "{origin_instance_id}|{payload}"
Published(origin, text) == origin \o <<Sep>> \o text

\* strings.Index(s, c): 0-based position of the first c in s, -1 when absent
Index(s, c) ==
    IF \E k \in 1..Len(s) : s[k] = c
    THEN (CHOOSE k \in 1..Len(s) : s[k] = c /\ \A j \in 1..(k - 1) : s[j] # c) - 1
    ELSE -1

\* if sep := strings.Index(payload, "|"); sep > 0 { originID := payload[:sep];
\*   if originID == config.InstanceID { continue } }
OriginIsSelf(payload, id) ==
    LET sep == Index(payload, Sep)
    IN sep > 0 /\ SubSeq(payload, 1, sep) = id

\* payload = payload[sep+1:] when sep > 0
StripOrigin(payload) ==
    LET sep == Index(payload, Sep)
    IN IF sep > 0 THEN SubSeq(payload, sep + 2, Len(payload)) ELSE payload

\* a panic of a reload that nothing recovers ends the goroutine
AfterReloadUnrecovered(panicked) == IF panicked THEN "dead" ELSE "receive"

\* defer func() { if r := recover(); r != nil { log } }(): the loop goes on
AfterReload(panicked) == "receive"

\* the calls safeReloadOptions makes: model.ReloadOptions()
OptionsCalls == <<"ReloadOptions">>

\* a reload of the channel group index alone
ChannelsCallsIndexOnly(oCh, oPr, oOb) == <<"ChannelGroup.Load">>

\* the calls safeReloadChannels makes, a panic ending the function:
\* ChannelGroup.Load(); PricingInstance.Init() and ModelOwnedBysInstance.Load()
\* when the instance is not nil
ChannelsCalls(oCh, oPr, oOb) ==
    LET runPr == oCh # "panic" /\ pricingPresent
        atOb == oCh # "panic" /\ (~pricingPresent \/ oPr # "panic")
        runOb == atOb /\ ownedByPresent
    IN <<"ChannelGroup.Load">>
         \o (IF runPr THEN <<"Pricing.Init">> ELSE <<>>)
         \o (IF runOb THEN <<"ModelOwnedBys.Load">> ELSE <<>>)

Has(cs, c) == \E k \in 1..Len(cs) : cs[k] = c

RtInit ==
    /\ InstanceID \in Ids
    /\ syncPc = "receive"
    /\ msgOrigin = <<>>
    /\ msgPayload = <<>>
    /\ msgChannel = "none"
    /\ calls = <<>>
    /\ panics = {}
    /\ errs = {}
    /\ everPanicked = FALSE
    /\ dbVersion = 0
    /\ optionsVer = 0
    /\ channelVer = 0
    /\ pricingVer = 0
    /\ ownedByVer = 0
    /\ pricingPresent \in BOOLEAN
    /\ ownedByPresent \in BOOLEAN

\* realtime sync not started
RtIdle ==
    /\ InstanceID = <<>>
    /\ syncPc = "dead"
    /\ msgOrigin = <<>>
    /\ msgPayload = <<>>
    /\ msgChannel = "none"
    /\ calls = <<>>
    /\ panics = {}
    /\ errs = {}
    /\ everPanicked = FALSE
    /\ dbVersion = 0
    /\ optionsVer = 0
    /\ channelVer = 0
    /\ pricingVer = 0
    /\ ownedByVer = 0
    /\ pricingPresent = FALSE
    /\ ownedByPresent = FALSE

\* the version a reload started later in the handler reads: a configuration
\* change may reach the database while the handler runs
LaterVersion(mid) == IF mid /\ dbVersion < MaxVersion THEN dbVersion + 1 ELSE dbVersion

\* one iteration of the subscriber loop on a received message: the self-origin
\* filter, the switch on msg.Channel, the reload with the outcome of each call
HandleMessage(origin, text, topic, oOpt, oCh, oPr, oOb, mid) ==
    /\ syncPc = "receive"
    /\ msgOrigin' = origin
    /\ msgPayload' = Published(origin, text)
    /\ msgChannel' = topic
    /\ UNCHANGED <<InstanceID, pricingPresent, ownedByPresent>>
    /\ IF OriginIsSelf(msgPayload', InstanceID)
       THEN /\ calls' = <<>>
            /\ panics' = {}
            /\ errs' = {}
            /\ UNCHANGED <<syncPc, everPanicked, dbVersion, optionsVer,
                           channelVer, pricingVer, ownedByVer>>
       ELSE IF topic = "options_sync"
       THEN /\ calls' = OptionsCalls
            /\ panics' = IF oOpt = "panic" THEN {"ReloadOptions"} ELSE {}
            /\ errs' = {}
            /\ optionsVer' = IF oOpt = "ok" THEN dbVersion ELSE optionsVer
            /\ everPanicked' = (everPanicked \/ panics' # {})
            /\ syncPc' = AfterReload(panics' # {})
            /\ UNCHANGED <<dbVersion, channelVer, pricingVer, ownedByVer>>
       ELSE /\ calls' = ChannelsCalls(oCh, oPr, oOb)
            /\ panics' = {c \in {"ChannelGroup.Load", "Pricing.Init",
                                 "ModelOwnedBys.Load"} :
                            /\ Has(calls', c)
                            /\ \/ c = "ChannelGroup.Load" /\ oCh = "panic"
                               \/ c = "Pricing.Init" /\ oPr = "panic"
                               \/ c = "ModelOwnedBys.Load" /\ oOb = "panic"}
            /\ errs' = {c \in {"Pricing.Init", "ModelOwnedBys.Load"} :
                            /\ Has(calls', c)
                            /\ \/ c = "Pricing.Init" /\ oPr = "err"
                               \/ c = "ModelOwnedBys.Load" /\ oOb = "err"}
            /\ dbVersion' = LaterVersion(mid)
            /\ channelVer' = IF oCh = "ok" THEN dbVersion ELSE channelVer
            /\ pricingVer' = IF Has(calls', "Pricing.Init") /\ oPr = "ok"
                             THEN dbVersion' ELSE pricingVer
            /\ ownedByVer' = IF Has(calls', "ModelOwnedBys.Load") /\ oOb = "ok"
                             THEN dbVersion' ELSE ownedByVer
            /\ everPanicked' = (everPanicked \/ panics' # {})
            /\ syncPc' = AfterReload(panics' # {})
            /\ UNCHANGED optionsVer
    /\ UNCHANGED rtOthers

\* pubsub.ReceiveMessage returns an error other than context.Canceled
ReceiveError ==
    /\ syncPc = "receive"
    /\ syncPc' = "backoff"
    /\ UNCHANGED <<InstanceID, msgOrigin, msgPayload, msgChannel, calls, panics,
                   errs, everPanicked, dbVersion, optionsVer, channelVer, pricingVer,
                   ownedByVer, pricingPresent, ownedByPresent>>
    /\ UNCHANGED rtOthers

\* time.Sleep(time.Second); continue
BackoffDone ==
    /\ syncPc = "backoff"
    /\ syncPc' = "receive"
    /\ UNCHANGED <<InstanceID, msgOrigin, msgPayload, msgChannel, calls, panics,
                   errs, everPanicked, dbVersion, optionsVer, channelVer, pricingVer,
                   ownedByVer, pricingPresent, ownedByPresent>>
    /\ UNCHANGED rtOthers

\* some node writes a configuration change to the database
DbChange ==
    /\ dbVersion < MaxVersion
    /\ dbVersion' = dbVersion + 1
    /\ UNCHANGED <<InstanceID, syncPc, msgOrigin, msgPayload, msgChannel, calls,
                   panics, errs, everPanicked, optionsVer, channelVer, pricingVer,
                   ownedByVer, pricingPresent, ownedByPresent>>
    /\ UNCHANGED rtOthers

VoidOutcomes == {"ok", "panic"}
ErrOutcomes == {"ok", "err", "panic"}

\* msg, err := pubsub.ReceiveMessage(ctx) with err = nil, and its handling
Receive(origins, texts, outs, mids) ==
    \E origin \in origins, text \in texts :
        \/ \E oOpt \in VoidOutcomes :
              HandleMessage(origin, text, "options_sync", oOpt, "ok", "ok", "ok", FALSE)
        \/ \E oCh \in VoidOutcomes, oPr \in outs, oOb \in outs, mid \in mids :
              HandleMessage(origin, text, "channels_sync", "ok", oCh, oPr, oOb, mid)

\* the warm-up goroutine has not been started
WIdle ==
    /\ warmPc = "none"
    /\ warmRuns = 0

\* go func() { time.Sleep(500 * time.Millisecond); ... }() has been started
WInit ==
    /\ warmPc = "sleeping"
    /\ warmRuns = 0

\* the warm-up goroutine after its sleep: safeReloadOptions()
WarmReloadOptions(oOpt) ==
    /\ warmPc = "sleeping"
    /\ warmPc' = "options"
    /\ optionsVer' = IF oOpt = "ok" THEN dbVersion ELSE optionsVer
    /\ everPanicked' = (everPanicked \/ oOpt = "panic")
    /\ UNCHANGED <<InstanceID, syncPc, msgOrigin, msgPayload, msgChannel, calls,
                   panics, errs, dbVersion, channelVer, pricingVer, ownedByVer,
                   pricingPresent, ownedByPresent, warmRuns>>
    /\ UNCHANGED wOthers

\* the warm-up goroutine's second and last statement: safeReloadChannels()
WarmReloadChannels(oCh, oPr, oOb, mid) ==
    LET cs == ChannelsCalls(oCh, oPr, oOb)
    IN /\ warmPc = "options"
       /\ warmPc' = "done"
       /\ warmRuns' = warmRuns + 1
       /\ dbVersion' = LaterVersion(mid)
       /\ channelVer' = IF oCh = "ok" THEN dbVersion ELSE channelVer
       /\ pricingVer' = IF Has(cs, "Pricing.Init") /\ oPr = "ok"
                        THEN dbVersion' ELSE pricingVer
       /\ ownedByVer' = IF Has(cs, "ModelOwnedBys.Load") /\ oOb = "ok"
                        THEN dbVersion' ELSE ownedByVer
       /\ everPanicked' = (everPanicked
                             \/ oCh = "panic"
                             \/ (Has(cs, "Pricing.Init") /\ oPr = "panic")
                             \/ (Has(cs, "ModelOwnedBys.Load") /\ oOb = "panic"))
       /\ UNCHANGED <<InstanceID, syncPc, msgOrigin, msgPayload, msgChannel, calls,
                      panics, errs, optionsVer, pricingPresent, ownedByPresent>>
       /\ UNCHANGED wOthers

\* the subscriber goroutine and the warm-up goroutine, both started by
\* StartRealtimeSync, in any interleaving
WarmNext ==
    \/ Receive(PlainIds, {<<>>}, ErrOutcomes, {FALSE})
    \/ \E oOpt \in VoidOutcomes : WarmReloadOptions(oOpt)
    \/ \E oCh \in VoidOutcomes, oPr \in ErrOutcomes, oOb \in ErrOutcomes, mid \in BOOLEAN :
          WarmReloadChannels(oCh, oPr, oOb, mid)
    \/ DbChange
    \/ ReceiveError
    \/ BackoffDone

SyncNext ==
    \/ Receive(Ids, Texts, VoidOutcomes, {FALSE})
    \/ ReceiveError
    \/ BackoffDone

ReloadNext ==
    \/ Receive(PlainIds, {<<>>}, ErrOutcomes, BOOLEAN)
    \/ DbChange
    \/ ReceiveError
    \/ BackoffDone

(* ---------------------------------------------------------------------- *)
(* The relay pipeline (relayTextHelper): preconsume, dispatch, settlement  *)
(* A ratio r stands for r / RatioDen.                                      *)
(* ---------------------------------------------------------------------- *)
TrustFactor == 100

TokenCounts == 0..MaxTokens
Ratios == 0..MaxRatio
\* cached user quotas: small ones and those around TrustFactor times an amount
UserQuotas ==
    TokenCounts \cup {TrustFactor * k + d : k \in 1..MaxTokens, d \in {0, 1}}
TokenQuotas == {0, 1, 2 * MaxTokens}

\* an estimate that adds max_tokens whatever its value
PreConsumedTokensSum(prompt, maxTok) == prompt + maxTok

\* preConsumedTokens := common.PreConsumedQuota;
\* if textRequest.MaxTokens != 0 { = promptTokens + textRequest.MaxTokens }
PreConsumedTokens(prompt, maxTok) ==
    IF maxTok # 0 THEN prompt + maxTok ELSE PreConsumedQuota

\* ratio := modelRatio * groupRatio;
\* preConsumedQuota := int(float64(preConsumedTokens) * ratio)
PreConsumedQuotaOf(tokens, m, g) == (tokens * m * g) \div (RatioDen * RatioDen)

\* if userQuota > 100*preConsumedQuota { preConsumedQuota = 0 }
Trusted(uq, pre) == uq > TrustFactor * pre

\* math.Ceil of a / b for a >= 0, b > 0
CeilDiv(a, b) == (a + b - 1) \div b

\* int(math.Ceil((float64(promptTokens) + float64(completionTokens)*completionRatio) * ratio))
RawQuota(p, c, cr, m, g) ==
    CeilDiv((p * RatioDen + c * cr) * m * g, RatioDen * RatioDen * RatioDen)

\* a settlement that bills nothing when the computed quota is 0
SettledQuotaNoMinimum(p, c, cr, m, g) ==
    IF p + c = 0 THEN 0 ELSE RawQuota(p, c, cr, m, g)

\* a settlement that does not look at totalTokens
SettledQuotaNoZeroRule(p, c, cr, m, g) ==
    IF m * g # 0 /\ RawQuota(p, c, cr, m, g) <= 0 THEN 1 ELSE RawQuota(p, c, cr, m, g)

\* quota = ceil(...); if ratio != 0 && quota <= 0 { quota = 1 };
\* if totalTokens == 0 { quota = 0 }
SettledQuota(p, c, cr, m, g) ==
    LET q0 == RawQuota(p, c, cr, m, g)
        q1 == IF m * g # 0 /\ q0 <= 0 THEN 1 ELSE q0
    IN IF p + c = 0 THEN 0 ELSE q1

\* a settlement that records every call, billed or not
BilledAlways(q) == TRUE

\* if quota != 0 { RecordConsumeLog; UpdateUserUsedQuotaAndRequestCount; UpdateChannelUsedQuota }
Billed(q) == q # 0

\* the amount line 246 computes for this call
Amount == PreConsumedQuotaOf(PreConsumedTokens(promptTokens, maxTokens),
                             modelRatio, groupRatio)

RInit ==
    /\ promptTokens \in TokenCounts
    /\ maxTokens \in TokenCounts
    /\ modelRatio \in Ratios
    /\ groupRatio \in Ratios
    /\ completionRatio \in Ratios
    /\ relayPc = "start"
    /\ relayErr = "none"
    /\ userQuota = 0
    /\ preConsumedQuota = Amount
    /\ usagePrompt = 0
    /\ usageCompletion = 0
    /\ sent = FALSE
    /\ refundPc = "none"
    /\ settlePc = "none"
    /\ quota = Nil
    /\ touched = {}
    /\ userCache \in UserQuotas
    /\ tokenRemain \in TokenQuotas
    /\ userCache0 = userCache
    /\ tokenRemain0 = tokenRemain
    /\ userUsed = 0
    /\ channelUsed = 0
    /\ consumeLogs = <<>>

\* no relay call
RIdle ==
    /\ promptTokens = 0
    /\ maxTokens = 0
    /\ modelRatio = 0
    /\ groupRatio = 0
    /\ completionRatio = 0
    /\ relayPc = "returned"
    /\ relayErr = "none"
    /\ userQuota = 0
    /\ preConsumedQuota = 0
    /\ usagePrompt = 0
    /\ usageCompletion = 0
    /\ sent = FALSE
    /\ refundPc = "none"
    /\ settlePc = "none"
    /\ quota = Nil
    /\ touched = {}
    /\ userCache = 0
    /\ tokenRemain = 0
    /\ userCache0 = 0
    /\ tokenRemain0 = 0
    /\ userUsed = 0
    /\ channelUsed = 0
    /\ consumeLogs = <<>>

\* return errorWrapper(err, code, status)
Fail(code) ==
    /\ relayErr' = code
    /\ relayPc' = "returned"

\* the ledger's token row after it applied delta
TokenAfter(remain, delta) == remain - delta

\* the user's persisted quota: the ledger moves it together with the token's
PersistedUserQuota(remain) == userCache0 - (tokenRemain0 - remain)

\* userQuota, err := model.CacheGetUserQuota(userId) and the check
\* userQuota-preConsumedQuota < 0
GetUserQuota(ok) ==
    /\ relayPc = "start"
    /\ IF ~ok
       THEN Fail("get_user_quota_failed") /\ UNCHANGED userQuota
       ELSE /\ userQuota' = userCache
            /\ IF userQuota' - preConsumedQuota < 0
               THEN Fail("insufficient_user_quota")
               ELSE relayPc' = "checked" /\ UNCHANGED relayErr
    /\ UNCHANGED <<promptTokens, maxTokens, modelRatio, groupRatio,
                   completionRatio, preConsumedQuota, usagePrompt,
                   usageCompletion, sent, refundPc, settlePc, quota, touched,
                   userCache, tokenRemain, userCache0, tokenRemain0, userUsed,
                   channelUsed, consumeLogs>>
    /\ UNCHANGED rOthers

\* err = model.CacheDecreaseUserQuota(userId, preConsumedQuota), then the
\* trusted-caller test
DecreaseUserQuota(ok) ==
    /\ relayPc = "checked"
    /\ IF ~ok
       THEN /\ Fail("decrease_user_quota_failed")
            /\ UNCHANGED <<userCache, preConsumedQuota>>
       ELSE /\ userCache' = userCache - preConsumedQuota
            /\ preConsumedQuota' = IF Trusted(userQuota, preConsumedQuota)
                                   THEN 0 ELSE preConsumedQuota
            /\ relayPc' = "decreased"
            /\ UNCHANGED relayErr
    /\ UNCHANGED <<promptTokens, maxTokens, modelRatio, groupRatio,
                   completionRatio, userQuota, usagePrompt, usageCompletion,
                   sent, refundPc, settlePc, quota, touched, tokenRemain,
                   userCache0, tokenRemain0, userUsed, channelUsed, consumeLogs>>
    /\ UNCHANGED rOthers

\* if preConsumedQuota > 0 { err := model.PreConsumeTokenQuota(tokenId, preConsumedQuota) }
PreConsumeToken(ok) ==
    /\ relayPc = "decreased"
    /\ IF preConsumedQuota > 0
       THEN IF ok /\ tokenRemain >= preConsumedQuota
            THEN /\ tokenRemain' = TokenAfter(tokenRemain, preConsumedQuota)
                 /\ relayPc' = "preconsumed"
                 /\ UNCHANGED relayErr
            ELSE /\ Fail("pre_consume_token_quota_failed")
                 /\ UNCHANGED tokenRemain
       ELSE /\ relayPc' = "preconsumed"
            /\ UNCHANGED <<relayErr, tokenRemain>>
    /\ UNCHANGED <<promptTokens, maxTokens, modelRatio, groupRatio,
                   completionRatio, userQuota, preConsumedQuota, usagePrompt,
                   usageCompletion, sent, refundPc, settlePc, quota, touched,
                   userCache, userCache0, tokenRemain0, userUsed, channelUsed,
                   consumeLogs>>
    /\ UNCHANGED rOthers

\* json.Marshal of the provider request, parseTencentConfig, http.NewRequest
BuildRequest(ok) ==
    /\ relayPc = "preconsumed"
    /\ IF ok
       THEN relayPc' = "built" /\ UNCHANGED relayErr
       ELSE Fail("marshal_text_request_failed")
    /\ UNCHANGED <<promptTokens, maxTokens, modelRatio, groupRatio,
                   completionRatio, userQuota, preConsumedQuota, usagePrompt,
                   usageCompletion, sent, refundPc, settlePc, quota, touched,
                   userCache, tokenRemain, userCache0, tokenRemain0, userUsed,
                   channelUsed, consumeLogs>>
    /\ UNCHANGED rOthers

DispatchOutcomes == {"err", "non200", "ok"}

\* resp, err = asyncHTTPDo(req, asyncNum) / httpClient.Do(req) and the tests of
\* err and resp.StatusCode
Dispatch(o) ==
    /\ relayPc = "built"
    /\ sent' = TRUE
    /\ IF o = "err"
       THEN Fail("do_request_failed") /\ UNCHANGED refundPc
       ELSE IF o = "non200"
       THEN /\ Fail("upstream_error")
            /\ refundPc' = IF preConsumedQuota # 0 THEN "pending" ELSE refundPc
       ELSE /\ relayPc' = "handling"
            /\ UNCHANGED <<relayErr, refundPc>>
    /\ UNCHANGED <<promptTokens, maxTokens, modelRatio, groupRatio,
                   completionRatio, userQuota, preConsumedQuota, usagePrompt,
                   usageCompletion, settlePc, quota, touched, userCache,
                   tokenRemain, userCache0, tokenRemain0, userUsed, channelUsed,
                   consumeLogs>>
    /\ UNCHANGED rOthers

\* the response handler of the provider; on return the deferred function
\* starts the settlement goroutine
HandleResponse(ok, p, c) ==
    /\ relayPc = "handling"
    /\ IF ok
       THEN /\ usagePrompt' = p
            /\ usageCompletion' = c
            /\ UNCHANGED relayErr
       ELSE /\ relayErr' = "handler_error"
            /\ UNCHANGED <<usagePrompt, usageCompletion>>
    /\ relayPc' = "returned"
    /\ settlePc' = "pending"
    /\ UNCHANGED <<promptTokens, maxTokens, modelRatio, groupRatio,
                   completionRatio, userQuota, preConsumedQuota, sent, refundPc,
                   quota, touched, userCache, tokenRemain, userCache0,
                   tokenRemain0, userUsed, channelUsed, consumeLogs>>
    /\ UNCHANGED rOthers

\* go func() { err = model.PostConsumeTokenQuota(tokenId, userQuota,
\*   -preConsumedQuota, preConsumedQuota, true) }
Refund(ok) ==
    /\ refundPc = "pending"
    /\ IF ok
       THEN /\ tokenRemain' = TokenAfter(tokenRemain, -preConsumedQuota)
            /\ refundPc' = "done"
       ELSE /\ refundPc' = "failed"
            /\ UNCHANGED tokenRemain
    /\ UNCHANGED <<promptTokens, maxTokens, modelRatio, groupRatio,
                   completionRatio, relayPc, relayErr, userQuota,
                   preConsumedQuota, usagePrompt, usageCompletion, sent,
                   settlePc, quota, touched, userCache, userCache0,
                   tokenRemain0, userUsed, channelUsed, consumeLogs>>
    /\ UNCHANGED rOthers

\* the settlement goroutine: quota, quotaDelta, PostConsumeTokenQuota,
\* CacheUpdateUserQuota and, if quota != 0, the log and the used-quota updates
Settle(okPost, okCache) ==
    /\ settlePc = "pending"
    /\ quota' = SettledQuota(usagePrompt, usageCompletion, completionRatio,
                             modelRatio, groupRatio)
    /\ LET quotaDelta == quota' - preConsumedQuota
       IN tokenRemain' = IF okPost THEN TokenAfter(tokenRemain, quotaDelta)
                         ELSE tokenRemain
    /\ userCache' = IF okCache THEN PersistedUserQuota(tokenRemain') ELSE userCache
    /\ IF Billed(quota')
       THEN /\ consumeLogs' = Append(consumeLogs, quota')
            /\ userUsed' = userUsed + quota'
            /\ channelUsed' = channelUsed + quota'
       ELSE UNCHANGED <<consumeLogs, userUsed, channelUsed>>
    /\ touched' = (IF okPost THEN {"token"} ELSE {})
                    \cup (IF Billed(quota') THEN {"log", "userUsed", "channelUsed"} ELSE {})
    /\ settlePc' = "done"
    /\ UNCHANGED <<promptTokens, maxTokens, modelRatio, groupRatio,
                   completionRatio, relayPc, relayErr, userQuota,
                   preConsumedQuota, usagePrompt, usageCompletion, sent,
                   refundPc, userCache0, tokenRemain0>>
    /\ UNCHANGED rOthers

RNext ==
    \/ \E ok \in BOOLEAN : GetUserQuota(ok)
    \/ \E ok \in BOOLEAN : DecreaseUserQuota(ok)
    \/ \E ok \in BOOLEAN : PreConsumeToken(ok)
    \/ \E ok \in BOOLEAN : BuildRequest(ok)
    \/ \E o \in DispatchOutcomes : Dispatch(o)
    \/ \E ok \in BOOLEAN, p \in TokenCounts, c \in TokenCounts : HandleResponse(ok, p, c)
    \/ \E ok \in BOOLEAN : Refund(ok)
    \/ \E okPost \in BOOLEAN, okCache \in BOOLEAN : Settle(okPost, okCache)

(* ---------------------------------------------------------------------- *)
(* relayTextHelper before the quota check: validation, model mapping, the   *)
(* upstream URL, the estimate; and the request it sends upstream            *)
(* ---------------------------------------------------------------------- *)

\* strings are sequences of characters
HasPrefix(str, pre) == Len(str) >= Len(pre) /\ SubSeq(str, 1, Len(pre)) = pre

HasSuffix(str, suf) ==
    Len(str) >= Len(suf) /\ SubSeq(str, Len(str) - Len(suf) + 1, Len(str)) = suf

TrimPrefix(str, pre) ==
    IF HasPrefix(str, pre) THEN SubSeq(str, Len(pre) + 1, Len(str)) ELSE str

TrimSuffix(str, suf) ==
    IF HasSuffix(str, suf) THEN SubSeq(str, 1, Len(str) - Len(suf)) ELSE str

Contains(str, sub) ==
    \E i \in 0..(Len(str) - Len(sub)) : SubSeq(str, i + 1, i + Len(sub)) = sub

IsDot(ch) == ch = "."

NotDot(ch) == ~IsDot(ch)

\* strings.Replace(str, ".", "", -1)
RemoveDots(str) == SelectSeq(str, NotDot)

Gpt4 == <<"g", "p", "t", "-", "4">>
Gpt4Dash0613 == Gpt4 \o <<"-", "0", "6", "1", "3">>
Gpt4Dot0613 == Gpt4 \o <<".", "0", "6", "1", "3">>
ModerationLatest == <<"text-moderation-latest">>

\* model names of inbound bodies; <<>> is a body without a model
ModelNames == {<<>>, Gpt4, Gpt4Dash0613, Gpt4Dot0613}

RelayModes == {"ChatCompletions", "Completions", "Embeddings", "Moderations", "Edits"}

NeedsField == RelayModes \ {"Embeddings"}

\* "" and "{}" (no mapping), a string that is not JSON, and {"gpt-4-0613": "gpt-4"}
ModelMappings == {"", "{}", "invalid", "map"}

\* modelMap[name] of the mapping "map"
ModelMap(name) == IF name = Gpt4Dash0613 THEN Gpt4 ELSE <<>>

ChannelTypes ==
    {"OpenAI", "Azure", "Anthropic", "Baidu", "PaLM", "Zhipu", "Ali", "Tencent"}

Absent == <<"absent">>
Bearer == <<"Bearer ">>
Ignore == <<"i", "g", "n", "o", "r", "e">>

\* channel keys: without "ignore", "ignore" itself, "ignore" inside, a prefix of it
Keys == {<<"k">>, Ignore, <<"k">> \o Ignore \o <<"1">>, <<"i", "g", "n", "o", "r">>}

InAuths == {Absent} \cup {Bearer \o k : k \in Keys}

\* base64 signatures: one without "ignore" and one that happens to hold it
Signs == {<<"s">>, <<"s">> \o Ignore}

\* common.GetModelRatio(name), in units of 1/RatioDen
GetModelRatio(name) == IF name = Gpt4 THEN MaxRatio ELSE 1

\* common.GetCompletionRatio(name), in units of 1/RatioDen
GetCompletionRatio(name) == IF name = Gpt4 THEN MaxRatio ELSE 1

\* no relayTextHelper call
QIdle ==
    /\ relayMode = "ChatCompletions"
    /\ reqModel = <<>>
    /\ fieldEmpty = FALSE
    /\ modelMapping = ""
    /\ channelType = "OpenAI"
    /\ inAuth = Absent
    /\ tencentSign = <<>>
    /\ textModel = <<>>
    /\ isModelMapped = FALSE

\* the inbound request and the channel the distributor chose for it
QInit ==
    /\ relayMode \in RelayModes
    /\ reqModel \in ModelNames
    /\ fieldEmpty \in BOOLEAN
    /\ relayMode = "Embeddings" => ~fieldEmpty
    /\ modelMapping \in ModelMappings
    /\ channelType \in ChannelTypes
    /\ inAuth \in InAuths
    /\ tencentSign \in (IF channelType = "Tencent" THEN Signs ELSE {<<>>})
    /\ textModel = <<>>
    /\ isModelMapped = FALSE

\* the ledger rows and the locals of relayTextHelper at its first line
RBind ==
    /\ promptTokens = 0
    /\ maxTokens = 0
    /\ modelRatio = 0
    /\ groupRatio = 0
    /\ completionRatio = 0
    /\ relayPc = "bind"
    /\ relayErr = "none"
    /\ userQuota = 0
    /\ preConsumedQuota = 0
    /\ usagePrompt = 0
    /\ usageCompletion = 0
    /\ sent = FALSE
    /\ refundPc = "none"
    /\ settlePc = "none"
    /\ quota = Nil
    /\ touched = {}
    /\ userCache = MaxTokens
    /\ tokenRemain = 2 * MaxTokens
    /\ userCache0 = userCache
    /\ tokenRemain0 = tokenRemain
    /\ userUsed = 0
    /\ channelUsed = 0
    /\ consumeLogs = <<>>

\* the defaults of Moderations and Embeddings for a body without a model
DefaultedModel(mode, name, param) ==
    IF mode = "Moderations" /\ name = <<>> THEN ModerationLatest
    ELSE IF mode = "Embeddings" /\ name = <<>> THEN param
    ELSE name

\* a validation that lets a request without its required field through
MissingFieldNever(mode, empty) == FALSE

\* the switch relayMode of the request validation
MissingField(mode, empty) == mode \in NeedsField /\ empty

\* common.UnmarshalBodyReusable, the two defaults and the request validation
Validate(okBind, param) ==
    /\ relayPc = "bind"
    /\ IF ~okBind
       THEN Fail("bind_request_body_failed") /\ UNCHANGED textModel
       ELSE /\ textModel' = DefaultedModel(relayMode, reqModel, param)
            /\ IF textModel' = <<>> \/ MissingField(relayMode, fieldEmpty)
               THEN Fail("required_field_missing")
               ELSE relayPc' = "mapping" /\ UNCHANGED relayErr
    /\ UNCHANGED <<promptTokens, maxTokens, modelRatio, groupRatio,
                   completionRatio, userQuota, preConsumedQuota, usagePrompt,
                   usageCompletion, sent, refundPc, settlePc, quota, touched,
                   userCache, tokenRemain, userCache0, tokenRemain0, userUsed,
                   channelUsed, consumeLogs>>
    /\ UNCHANGED <<relayMode, reqModel, fieldEmpty, modelMapping, channelType,
                   inAuth, tencentSign, isModelMapped>>
    /\ UNCHANGED qOthers

\* map model name
MapModel ==
    /\ relayPc = "mapping"
    /\ IF modelMapping \in {"", "{}"}
       THEN /\ relayPc' = "url"
            /\ UNCHANGED <<relayErr, textModel, isModelMapped>>
       ELSE IF modelMapping = "invalid"
       THEN /\ Fail("unmarshal_model_mapping_failed")
            /\ UNCHANGED <<textModel, isModelMapped>>
       ELSE /\ relayPc' = "url"
            /\ UNCHANGED relayErr
            /\ IF ModelMap(textModel) # <<>>
               THEN textModel' = ModelMap(textModel) /\ isModelMapped' = TRUE
               ELSE UNCHANGED <<textModel, isModelMapped>>
    /\ UNCHANGED <<promptTokens, maxTokens, modelRatio, groupRatio,
                   completionRatio, userQuota, preConsumedQuota, usagePrompt,
                   usageCompletion, sent, refundPc, settlePc, quota, touched,
                   userCache, tokenRemain, userCache0, tokenRemain0, userUsed,
                   channelUsed, consumeLogs>>
    /\ UNCHANGED <<relayMode, reqModel, fieldEmpty, modelMapping, channelType,
                   inAuth, tencentSign>>
    /\ UNCHANGED qOthers

\* a sanitization that only removes the dots
AzureDeploymentDotsOnly(name) == RemoveDots(name)

\* model_ of the Azure branch: strings.Replace(".", ""), then the three TrimSuffix
AzureDeployment(name) ==
    TrimSuffix(TrimSuffix(TrimSuffix(RemoveDots(name),
        <<"-", "0", "3", "0", "1">>), <<"-", "0", "3", "1", "4">>),
        <<"-", "0", "6", "1", "3">>)

\* requestURL of the Azure branch, without the query: /openai/deployments/%s/%s
AzurePath(name, task) == <<"/openai/deployments/">> \o AzureDeployment(name) \o <<"/", task>>

\* the switch apiType that computes fullRequestURL
BuildURL(okToken) ==
    /\ relayPc = "url"
    /\ IF channelType = "Baidu" /\ ~okToken
       THEN Fail("invalid_baidu_config")
       ELSE relayPc' = "estimate" /\ UNCHANGED relayErr
    /\ UNCHANGED <<promptTokens, maxTokens, modelRatio, groupRatio,
                   completionRatio, userQuota, preConsumedQuota, usagePrompt,
                   usageCompletion, sent, refundPc, settlePc, quota, touched,
                   userCache, tokenRemain, userCache0, tokenRemain0, userUsed,
                   channelUsed, consumeLogs>>
    /\ UNCHANGED qvars
    /\ UNCHANGED qOthers

\* the name GetModelRatio and GetCompletionRatio are called with
PricedModel == textModel

\* promptTokens, preConsumedTokens, modelRatio, groupRatio, ratio and
\* preConsumedQuota; completionRatio is what the settlement will look up
Estimate(p, mt) ==
    /\ relayPc = "estimate"
    /\ promptTokens' = IF relayMode \in {"ChatCompletions", "Completions", "Moderations"}
                       THEN p ELSE 0
    /\ maxTokens' = mt
    /\ modelRatio' = GetModelRatio(PricedModel)
    /\ groupRatio' = RatioDen
    /\ completionRatio' = GetCompletionRatio(PricedModel)
    /\ preConsumedQuota' = PreConsumedQuotaOf(PreConsumedTokens(promptTokens', mt),
                                              modelRatio', groupRatio')
    /\ relayPc' = "start"
    /\ UNCHANGED <<relayErr, userQuota, usagePrompt, usageCompletion, sent,
                   refundPc, settlePc, quota, touched, userCache, tokenRemain,
                   userCache0, tokenRemain0, userUsed, channelUsed, consumeLogs>>
    /\ UNCHANGED qvars
    /\ UNCHANGED qOthers

\* c.Request.Header.Get("Authorization")
Get(h) == IF h = Absent THEN <<>> ELSE h

\* the inbound Authorization header when req is built: the Tencent branch has
\* replaced it by c.Request.Header.Set("Authorization", sign)
AuthAtBuild == IF channelType = "Tencent" THEN tencentSign ELSE inAuth

\* apiKey := strings.TrimPrefix(c.Request.Header.Get("Authorization"), "Bearer ")
ApiKey == TrimPrefix(Get(AuthAtBuild), Bearer)

\* getZhipuToken(apiKey): a signed token, not the key
ZhipuToken(key) == <<"jwt">>

\* header Authorization after req.Header = c.Request.Header.Clone() and the
\* switch apiType
AuthAfterSwitch ==
    CASE channelType = "OpenAI" -> Get(AuthAtBuild)
      [] channelType \in {"Azure", "Anthropic", "PaLM"} -> AuthAtBuild
      [] channelType = "Zhipu" -> ZhipuToken(ApiKey)
      [] channelType = "Tencent" -> ApiKey
      [] OTHER -> Bearer \o ApiKey

\* strings.Contains(apiKey, "ignore")
Ignored(key) == Contains(key, Ignore)

\* header Authorization of the request sent upstream, or Absent
OutAuthorization == IF Ignored(ApiKey) THEN Absent ELSE AuthAfterSwitch

\* header api-key of the request sent upstream, or Absent
OutApiKey == IF channelType = "Azure" THEN ApiKey ELSE Absent

\* field model of the body sent upstream by a channel that forwards the OpenAI
\* body: the marshalled textRequest when mapped, else the inbound body
OutBodyModel == IF isModelMapped THEN textModel ELSE reqModel

QNext ==
    \/ \E okBind \in BOOLEAN, param \in {<<>>, Gpt4} : Validate(okBind, param)
    \/ MapModel
    \/ \E okToken \in BOOLEAN : BuildURL(okToken)
    \/ \E p \in TokenCounts, mt \in {0, MaxTokens} : Estimate(p, mt)

(* ---------------------------------------------------------------------- *)
(* Channel operations (Insert, BatchInsertChannels, Update, Delete, ...)    *)
(* ---------------------------------------------------------------------- *)

ChannelIds == 1..MaxChannels

Statuses == {"enabled", "manuallyDisabled", "autoDisabled"}

ModelSets == {{"a"}, {"b"}, {"a", "b"}}

Exists(c) == chanStatus[c] # "none"

\* the ability rows of a channel with these models and this status
RowsOf(c, ms, st) ==
    {[channel |-> c, model |-> m, enabled |-> (st = "enabled")] : m \in ms}

RowsFor(c) == {a \in abilities : a.channel = c}

\* channel.AddAbilities()
AddAbilities(rows, c, ms, st) == rows \cup RowsOf(c, ms, st)

\* channel.DeleteAbilities()
DeleteAbilities(rows, c) == {a \in rows : a.channel # c}

\* channel.UpdateAbilities(): delete the channel's rows, then add them again
UpdateAbilities(rows, c, ms, st) == AddAbilities(DeleteAbilities(rows, c), c, ms, st)

\* UpdateAbilityStatus(id, enabled)
UpdateAbilityStatus(rows, c, en) ==
    {IF a.channel = c THEN [a EXCEPT !.enabled = en] ELSE a : a \in rows}

\* UpdateAllAbilities(): the index rebuilt from a channel table
AllAbilities(status, models) ==
    UNION {RowsOf(c, models[c], status[c]) : c \in {x \in ChannelIds : status[x] # "none"}}

CIdle ==
    /\ chanStatus = [c \in ChannelIds |-> "none"]
    /\ chanModels = [c \in ChannelIds |-> {}]
    /\ abilities = {}
    /\ dbFailed = FALSE

\* an empty channel table
CInit == CIdle

\* func (channel *Channel) Insert()
Insert(c, st, ms, okCreate, okAdd) ==
    /\ ~Exists(c)
    /\ IF okCreate
       THEN /\ chanStatus' = [chanStatus EXCEPT ![c] = st]
            /\ chanModels' = [chanModels EXCEPT ![c] = ms]
            /\ abilities' = IF okAdd THEN AddAbilities(abilities, c, ms, st) ELSE abilities
       ELSE UNCHANGED <<chanStatus, chanModels, abilities>>
    /\ dbFailed' = (dbFailed \/ ~okCreate \/ ~okAdd)
    /\ UNCHANGED cOthers

\* the abilities after AddAbilities ran for the channels of ids below k
AddedUpTo(rows, ids, k, st, ms) ==
    rows \cup UNION {RowsOf(c, ms, st) : c \in {x \in ids : x < k}}

\* func BatchInsertChannels: k is the first channel whose AddAbilities fails
BatchInsertChannels(ids, st, ms, okCreate, k) ==
    /\ ids # {}
    /\ \A c \in ids : ~Exists(c)
    /\ IF okCreate
       THEN /\ chanStatus' = [c \in ChannelIds |-> IF c \in ids THEN st ELSE chanStatus[c]]
            /\ chanModels' = [c \in ChannelIds |-> IF c \in ids THEN ms ELSE chanModels[c]]
            /\ abilities' = AddedUpTo(abilities, ids, k, st, ms)
       ELSE UNCHANGED <<chanStatus, chanModels, abilities>>
    /\ dbFailed' = (dbFailed \/ ~okCreate \/ \E c \in ids : c >= k)
    /\ UNCHANGED cOthers

\* func (channel *Channel) Update()
Update(c, st, ms, okUpdate, okAb) ==
    /\ Exists(c)
    /\ IF okUpdate
       THEN /\ chanStatus' = [chanStatus EXCEPT ![c] = st]
            /\ chanModels' = [chanModels EXCEPT ![c] = ms]
            /\ abilities' = IF okAb THEN UpdateAbilities(abilities, c, ms, st) ELSE abilities
       ELSE UNCHANGED <<chanStatus, chanModels, abilities>>
    /\ dbFailed' = (dbFailed \/ ~okUpdate \/ ~okAb)
    /\ UNCHANGED cOthers

\* func (channel *Channel) Delete()
Delete(c, okDelete, okAb) ==
    /\ Exists(c)
    /\ IF okDelete
       THEN /\ chanStatus' = [chanStatus EXCEPT ![c] = "none"]
            /\ chanModels' = [chanModels EXCEPT ![c] = {}]
            /\ abilities' = IF okAb THEN DeleteAbilities(abilities, c) ELSE abilities
       ELSE UNCHANGED <<chanStatus, chanModels, abilities>>
    /\ dbFailed' = (dbFailed \/ ~okDelete \/ ~okAb)
    /\ UNCHANGED cOthers

\* func UpdateChannelStatusById(id, status): both errors are only logged
UpdateChannelStatusById(c, st, okAb, okDb) ==
    /\ abilities' = IF okAb THEN UpdateAbilityStatus(abilities, c, st = "enabled")
                    ELSE abilities
    /\ chanStatus' = IF okDb /\ Exists(c) THEN [chanStatus EXCEPT ![c] = st]
                     ELSE chanStatus
    /\ dbFailed' = (dbFailed \/ ~okAb \/ ~okDb)
    /\ UNCHANGED chanModels
    /\ UNCHANGED cOthers

\* DB.Where(status in sts).Delete(&Channel{})
DeleteWhere(sts) ==
    /\ chanStatus' = [c \in ChannelIds |-> IF chanStatus[c] \in sts THEN "none"
                                            ELSE chanStatus[c]]
    /\ chanModels' = [c \in ChannelIds |-> IF chanStatus[c] \in sts THEN {}
                                            ELSE chanModels[c]]

\* func DeleteChannelByStatus(status)
DeleteChannelByStatus(st, ok) ==
    /\ IF ok THEN DeleteWhere({st}) ELSE UNCHANGED <<chanStatus, chanModels>>
    /\ dbFailed' = (dbFailed \/ ~ok)
    /\ UNCHANGED abilities
    /\ UNCHANGED cOthers

\* func DeleteDisabledChannel(): the deferred UpdateAllAbilities runs last
DeleteDisabledChannel(ok, okAll) ==
    /\ IF ok THEN DeleteWhere({"autoDisabled", "manuallyDisabled"})
       ELSE UNCHANGED <<chanStatus, chanModels>>
    /\ abilities' = IF okAll THEN AllAbilities(chanStatus', chanModels') ELSE abilities
    /\ dbFailed' = (dbFailed \/ ~ok \/ ~okAll)
    /\ UNCHANGED cOthers

CNext ==
    \/ \E c \in ChannelIds, st \in Statuses, ms \in ModelSets, okCreate \in BOOLEAN,
          okAdd \in BOOLEAN : Insert(c, st, ms, okCreate, okAdd)
    \/ \E ids \in SUBSET ChannelIds, st \in Statuses, ms \in ModelSets,
          okCreate \in BOOLEAN, k \in 1..(MaxChannels + 1) :
            BatchInsertChannels(ids, st, ms, okCreate, k)
    \/ \E c \in ChannelIds, st \in Statuses, ms \in ModelSets, okUpdate \in BOOLEAN,
          okAb \in BOOLEAN : Update(c, st, ms, okUpdate, okAb)
    \/ \E c \in ChannelIds, okDelete \in BOOLEAN, okAb \in BOOLEAN :
            Delete(c, okDelete, okAb)
    \/ \E c \in ChannelIds, st \in Statuses, okAb \in BOOLEAN, okDb \in BOOLEAN :
            UpdateChannelStatusById(c, st, okAb, okDb)
    \/ \E st \in Statuses, ok \in BOOLEAN : DeleteChannelByStatus(st, ok)
    \/ \E ok \in BOOLEAN, okAll \in BOOLEAN : DeleteDisabledChannel(ok, okAll)

(* ---------------------------------------------------------------------- *)
(* Concurrent settlements and refunds on one token                          *)
(* ---------------------------------------------------------------------- *)

Calls == 1..MaxCalls

\* preconsumed amounts and settled quotas of the concurrent calls
Amounts == 0..MaxTokens

LIdle ==
    /\ ledgerRemain = 0
    /\ ledgerInit = 0
    /\ callPc = [i \in Calls |-> "none"]
    /\ callDelta = [i \in Calls |-> 0]
    /\ callSeen = [i \in Calls |-> 0]

\* a token after the preconsumptions of the calls, no goroutine started yet
LInit ==
    /\ ledgerRemain \in TokenQuotas
    /\ ledgerInit = ledgerRemain
    /\ callPc = [i \in Calls |-> "none"]
    /\ callDelta = [i \in Calls |-> 0]
    /\ callSeen = [i \in Calls |-> 0]

\* an update that writes back the value the goroutine saw when it started
LedgerApplyStale(remain, seen, delta) == seen - delta

\* the ledger's update of the token row: remain_quota - delta under the row lock
LedgerApply(remain, seen, delta) == TokenAfter(remain, delta)

\* go func() with its delta
StartGoroutine(i, delta) ==
    /\ callPc[i] = "none"
    /\ callPc' = [callPc EXCEPT ![i] = "pending"]
    /\ callDelta' = [callDelta EXCEPT ![i] = delta]
    /\ callSeen' = [callSeen EXCEPT ![i] = ledgerRemain]
    /\ UNCHANGED <<ledgerRemain, ledgerInit>>
    /\ UNCHANGED lOthers

\* upstream non-200: go func() { PostConsumeTokenQuota(.., -preConsumedQuota, ..) }
StartRefund(i, pre) ==
    /\ pre # 0
    /\ StartGoroutine(i, -pre)

\* the deferred go func(): quotaDelta := quota - preConsumedQuota
StartSettlement(i, q, pre) ==
    /\ callPc[i] = "none"
    /\ StartGoroutine(i, q - pre)

\* err = model.PostConsumeTokenQuota(tokenId, userQuota, delta, preConsumedQuota, true)
PostConsumeTokenQuota(i, ok) ==
    /\ callPc[i] = "pending"
    /\ IF ok
       THEN /\ ledgerRemain' = LedgerApply(ledgerRemain, callSeen[i], callDelta[i])
            /\ callPc' = [callPc EXCEPT ![i] = "done"]
       ELSE /\ callPc' = [callPc EXCEPT ![i] = "failed"]
            /\ UNCHANGED ledgerRemain
    /\ UNCHANGED <<ledgerInit, callDelta, callSeen>>
    /\ UNCHANGED lOthers

LNext ==
    \/ \E i \in Calls, pre \in Amounts : StartRefund(i, pre)
    \/ \E i \in Calls, q \in Amounts, pre \in Amounts : StartSettlement(i, q, pre)
    \/ \E i \in Calls, ok \in BOOLEAN : PostConsumeTokenQuota(i, ok)

(* ---------------------------------------------------------------------- *)
(* GetEnableChannels with Redis enabled: the lock key and the cached list   *)
(* ---------------------------------------------------------------------- *)

Callers == 1..MaxCallers

\* common.RDB.SetNX(ctx, lockKey, "1", 5*time.Second)
LockSeconds == 5

\* the rows DB.Where("status = ?", common.ChannelStatusEnabled) finds
EnabledRows == <<"a", "b">>

\* common.RDB.LPush(ctx, "channel:enable:list", channelData) for each row
RECURSIVE PushAll(_, _)
PushAll(list, rows) ==
    IF rows = <<>> THEN list ELSE PushAll(<<Head(rows)>> \o list, Tail(rows))

GIdle ==
    /\ lockTtl = 0
    /\ lockOwner = Nil
    /\ cacheList = <<>>
    /\ getPc = [c \in Callers |-> "done"]
    /\ getPath = [c \in Callers |-> "none"]
    /\ wroteCache = {}
    /\ releasedOthers = {}

\* no key, no list, every caller about to call GetEnableChannels
GInit ==
    /\ lockTtl = 0
    /\ lockOwner = Nil
    /\ cacheList = <<>>
    /\ getPc = [c \in Callers |-> "idle"]
    /\ getPath = [c \in Callers |-> "none"]
    /\ wroteCache = {}
    /\ releasedOthers = {}

\* lockSuccess, err := SetNX(...); on err or !lockSuccess return
\* readChannelsFromDB(); otherwise defer Del(lockKey)
TryLock(c, err) ==
    /\ getPc[c] = "idle"
    /\ IF err \/ lockTtl > 0
       THEN /\ getPath' = [getPath EXCEPT ![c] = "db"]
            /\ getPc' = [getPc EXCEPT ![c] = "done"]
            /\ UNCHANGED <<lockTtl, lockOwner>>
       ELSE /\ lockTtl' = LockSeconds
            /\ lockOwner' = c
            /\ getPc' = [getPc EXCEPT ![c] = "locked"]
            /\ UNCHANGED getPath
    /\ UNCHANGED <<cacheList, wroteCache, releasedOthers>>
    /\ UNCHANGED gOthers

\* val, err := LRange(ctx, "channel:enable:list", 0, -1);
\* if err != nil || len(val) == 0 { return readAndCacheChannels(ctx) }
ReadCachedList(c, err) ==
    /\ getPc[c] = "locked"
    /\ IF err \/ cacheList = <<>>
       THEN /\ getPc' = [getPc EXCEPT ![c] = "populate"]
            /\ UNCHANGED getPath
       ELSE /\ getPc' = [getPc EXCEPT ![c] = "release"]
            /\ getPath' = [getPath EXCEPT ![c] = "cache"]
    /\ UNCHANGED <<lockTtl, lockOwner, cacheList, wroteCache, releasedOthers>>
    /\ UNCHANGED gOthers

\* readAndCacheChannels: the query, then LPush of every row and Expire
readAndCacheChannels(c, dbOk) ==
    /\ getPc[c] = "populate"
    /\ getPc' = [getPc EXCEPT ![c] = "release"]
    /\ IF dbOk
       THEN /\ cacheList' = PushAll(cacheList, EnabledRows)
            /\ wroteCache' = wroteCache \cup {c}
            /\ getPath' = [getPath EXCEPT ![c] = "populated"]
       ELSE /\ getPath' = [getPath EXCEPT ![c] = "dbError"]
            /\ UNCHANGED <<cacheList, wroteCache>>
    /\ UNCHANGED <<lockTtl, lockOwner, releasedOthers>>
    /\ UNCHANGED gOthers

\* the deferred common.RDB.Del(ctx, lockKey)
ReleaseLock(c) ==
    /\ getPc[c] = "release"
    /\ getPc' = [getPc EXCEPT ![c] = "done"]
    /\ lockTtl' = 0
    /\ lockOwner' = Nil
    /\ releasedOthers' = IF lockOwner = c THEN releasedOthers
                         ELSE releasedOthers \cup {c}
    /\ UNCHANGED <<cacheList, getPath, wroteCache>>
    /\ UNCHANGED gOthers

\* a second passes: Redis drops the lock key when its TTL has run out
LockSecond ==
    /\ lockTtl > 0
    /\ lockTtl' = lockTtl - 1
    /\ lockOwner' = IF lockTtl' = 0 THEN Nil ELSE lockOwner
    /\ UNCHANGED <<cacheList, getPc, getPath, wroteCache, releasedOthers>>
    /\ UNCHANGED gOthers

\* Redis drops the cached list when its 150 s have run out
CacheExpire ==
    /\ cacheList # <<>>
    /\ cacheList' = <<>>
    /\ UNCHANGED <<lockTtl, lockOwner, getPc, getPath, wroteCache, releasedOthers>>
    /\ UNCHANGED gOthers

GNext ==
    \/ \E c \in Callers, err \in BOOLEAN : TryLock(c, err)
    \/ \E c \in Callers, err \in BOOLEAN : ReadCachedList(c, err)
    \/ \E c \in Callers, dbOk \in BOOLEAN : readAndCacheChannels(c, dbOk)
    \/ \E c \in Callers : ReleaseLock(c)
    \/ LockSecond
    \/ CacheExpire

(* ---------------------------------------------------------------------- *)
(* StartRealtimeSync's goroutines, a reload being a call that takes time    *)
(* ---------------------------------------------------------------------- *)

\* a published message: its topic and whether this instance published it
Messages == [topic : Topics, self : BOOLEAN]

XIdle ==
    /\ warmTask = "none"
    /\ subTask = "none"
    /\ pending = <<>>

\* StartRealtimeSync has returned: both goroutines are started
XInit ==
    /\ warmTask = "sleeping"
    /\ subTask = "receive"
    /\ pending = <<>>

\* some instance publishes on one of the two topics
Publish(m) ==
    /\ Len(pending) < MaxPending
    /\ pending' = Append(pending, m)
    /\ UNCHANGED <<warmTask, subTask>>
    /\ UNCHANGED xOthers

\* the reload the subscriber's switch on msg.Channel calls
ReloadFor(topic) == IF topic = "options_sync" THEN "inOptions" ELSE "inChannels"

\* the warm-up goroutine: time.Sleep returns and safeReloadOptions() is
\* called; it returns and safeReloadChannels() is called; it returns
WarmAdvance ==
    /\ warmTask \in {"sleeping", "inOptions", "inChannels"}
    /\ warmTask' = IF warmTask = "sleeping" THEN "inOptions"
                   ELSE IF warmTask = "inOptions" THEN "inChannels"
                   ELSE "finished"
    /\ UNCHANGED <<subTask, pending>>
    /\ UNCHANGED xOthers

\* the subscriber: ReceiveMessage returns a message; one of this instance is
\* skipped, another one makes it call the reload of its topic
SubReceive ==
    /\ subTask = "receive"
    /\ pending # <<>>
    /\ pending' = Tail(pending)
    /\ subTask' = IF Head(pending).self THEN "receive"
                  ELSE ReloadFor(Head(pending).topic)
    /\ UNCHANGED warmTask
    /\ UNCHANGED xOthers

\* the subscriber's reload returns (recovered when it panicked)
SubReturn ==
    /\ subTask \in {"inOptions", "inChannels"}
    /\ subTask' = "receive"
    /\ UNCHANGED <<warmTask, pending>>
    /\ UNCHANGED xOthers

XNext ==
    \/ \E m \in Messages : Publish(m)
    \/ WarmAdvance
    \/ SubReceive
    \/ SubReturn

(* ---------------------------------------------------------------------- *)
(* The quota check and the cache decrement of concurrent relay calls        *)
(* ---------------------------------------------------------------------- *)

UIdle ==
    /\ cachedQuota = 0
    /\ quotaPc = [i \in Calls |-> "none"]
    /\ quotaSeen = [i \in Calls |-> 0]
    /\ quotaAmount = [i \in Calls |-> 0]

\* MaxCalls relay calls of one user are about to read the user's cached quota
UInit ==
    /\ cachedQuota \in Amounts
    /\ quotaPc = [i \in Calls |-> "idle"]
    /\ quotaSeen = [i \in Calls |-> 0]
    /\ quotaAmount = [i \in Calls |-> 0]

\* the cache's decrement of the user's quota, one atomic KV operation
CacheAfter(q, amount) == q - amount

\* userQuota, err := model.CacheGetUserQuota(userId) and the test
\* userQuota-preConsumedQuota < 0, for a call whose amount is amount
CheckUserQuota(i, amount, ok) ==
    /\ quotaPc[i] = "idle"
    /\ quotaAmount' = [quotaAmount EXCEPT ![i] = amount]
    /\ IF ok
       THEN /\ quotaSeen' = [quotaSeen EXCEPT ![i] = cachedQuota]
            /\ quotaPc' = [quotaPc EXCEPT ![i] =
                              IF cachedQuota - amount < 0 THEN "rejected" ELSE "checked"]
       ELSE /\ quotaPc' = [quotaPc EXCEPT ![i] = "rejected"]
            /\ UNCHANGED quotaSeen
    /\ UNCHANGED cachedQuota
    /\ UNCHANGED uOthers

\* err = model.CacheDecreaseUserQuota(userId, preConsumedQuota)
CacheDecreaseUserQuota(i, ok) ==
    /\ quotaPc[i] = "checked"
    /\ IF ok
       THEN /\ cachedQuota' = CacheAfter(cachedQuota, quotaAmount[i])
            /\ quotaPc' = [quotaPc EXCEPT ![i] = "decreased"]
       ELSE /\ quotaPc' = [quotaPc EXCEPT ![i] = "rejected"]
            /\ UNCHANGED cachedQuota
    /\ UNCHANGED <<quotaSeen, quotaAmount>>
    /\ UNCHANGED uOthers

UNext ==
    \/ \E i \in Calls, amount \in Amounts, ok \in BOOLEAN : CheckUserQuota(i, amount, ok)
    \/ \E i \in Calls, ok \in BOOLEAN : CacheDecreaseUserQuota(i, ok)

\* no GetEnableChannels caller, no realtime goroutine, no quota check
NewIdle == GIdle /\ XIdle /\ UIdle

(* ---------------------------------------------------------------------- *)
(* The racing dispatcher (asyncHTTPDo)                                     *)
(* ---------------------------------------------------------------------- *)
\* bodies of the request handed to asyncHTTPDo
Bodies == {<<>>, <<"x", "y">>}

\* body readers: i < MaxAsyncNum is the bytes.NewReader(bodyBytes) made for
\* reqs[i]; Inbound is the req.Body the function was called with
Inbound == MaxAsyncNum
Readers == 0..MaxAsyncNum

\* the Body of parameter req after the set-up: asyncNum == 1 makes reqs[0] = req
\* and replaces its Body; otherwise only the clones get a new Body
ReqBody == IF asyncNum = 1 THEN 0 ELSE Inbound

\* the reader of the request attempt i passes to timeoutHTTPClient.Do: the
\* goroutines of the range loop use reqs[i], the escalation goroutine uses req
BodyReader(i) == IF i \in Initial THEN i ELSE ReqBody

\* what is left to read of a reader over bodyBytes
Remaining(r) == SubSeq(bodyBytes, readerPos[r] + 1, Len(bodyBytes))

\* bodyBytes, err := io.ReadAll(req.Body) has read the inbound reader to its end
BInit ==
    /\ bodyBytes \in Bodies
    /\ readerPos = [r \in Readers |-> IF r = Inbound THEN Len(bodyBytes) ELSE 0]
    /\ attBody = [i \in Attempts |-> <<>>]

BIdle ==
    /\ bodyBytes = <<>>
    /\ readerPos = [r \in Readers |-> 0]
    /\ attBody = [i \in Attempts |-> <<>>]

DInit ==
    /\ BInit
    /\ asyncNum \in 1..MaxAsyncNum
    /\ asynctimerchan \in BOOLEAN
    /\ pc = "launch"
    /\ attPc = [i \in Attempts |-> "idle"]
    /\ attRes = [i \in Attempts |-> "none"]
    /\ cancelFuncs = {}
    /\ cancelInvoked = [i \in Attempts |-> FALSE]
    /\ wg = 0
    /\ closerPc = "idle"
    /\ done = FALSE
    /\ respChClosed = FALSE
    /\ timer = "armed"
    /\ resps = <<>>
    /\ lastErr = Nil
    /\ retResp = Nil
    /\ retErr = Nil
    /\ closed = {}
    /\ delivered = <<>>
    /\ clientGone = FALSE

\* the dispatcher before any call
DIdle ==
    /\ BIdle
    /\ asyncNum = 1
    /\ asynctimerchan = FALSE
    /\ pc = "returned"
    /\ attPc = [i \in Attempts |-> "idle"]
    /\ attRes = [i \in Attempts |-> "none"]
    /\ cancelFuncs = {}
    /\ cancelInvoked = [i \in Attempts |-> FALSE]
    /\ wg = 0
    /\ closerPc = "idle"
    /\ done = FALSE
    /\ respChClosed = FALSE
    /\ timer = "stopped"
    /\ resps = <<>>
    /\ lastErr = Nil
    /\ retResp = Nil
    /\ retErr = Nil
    /\ closed = {}
    /\ delivered = <<>>
    /\ clientGone = FALSE

\* for i, req := range reqs { wg.Add(1); cancelFuncs[i] = cancel; go func... }
Launch(i) ==
    /\ pc = "launch"
    /\ i \in Initial
    /\ attPc[i] = "idle"
    /\ \A j \in Initial : j < i => attPc[j] # "idle"
    /\ wg' = wg + 1
    /\ cancelFuncs' = cancelFuncs \cup {i}
    /\ attPc' = [attPc EXCEPT ![i] = "do"]
    /\ UNCHANGED <<asyncNum, asynctimerchan, pc, attRes, cancelInvoked, closerPc,
                   done, respChClosed, timer, resps, lastErr, retResp, retErr,
                   closed, delivered, clientGone>>
    /\ UNCHANGED dOthers

\* go func() { wg.Wait(); ... }() and entry into the for/select loop
StartLoop ==
    /\ pc = "launch"
    /\ \A j \in Initial : attPc[j] # "idle"
    /\ pc' = "select"
    /\ closerPc' = "wait"
    /\ UNCHANGED <<asyncNum, asynctimerchan, attPc, attRes, cancelFuncs,
                   cancelInvoked, wg, done, respChClosed, timer, resps, lastErr,
                   retResp, retErr, closed, delivered, clientGone>>
    /\ UNCHANGED dOthers

\* resp, err := timeoutHTTPClient.Do(req) returns (or panics); the transport
\* has read the request's Body from where the reader stood
DoReturn(i, o) ==
    /\ attPc[i] = "do"
    /\ o \in Outcomes
    /\ attRes' = [attRes EXCEPT ![i] = o]
    /\ attPc' = [attPc EXCEPT ![i] = IF o = "panic" THEN "defer" ELSE "got"]
    /\ attBody' = [attBody EXCEPT ![i] = Remaining(BodyReader(i))]
    /\ readerPos' = [readerPos EXCEPT ![BodyReader(i)] = Len(bodyBytes)]
    /\ UNCHANGED bodyBytes
    /\ UNCHANGED <<asyncNum, asynctimerchan, pc, cancelFuncs, cancelInvoked, wg,
                   closerPc, done, respChClosed, timer, resps, lastErr, retResp,
                   retErr, closed, delivered, clientGone>>
    /\ UNCHANGED dDoOthers

\* if err != nil { lastErr = err; cancel(); return }
\* (the escalation goroutine has no cancel of its own)
HandleErr(i) ==
    /\ attPc[i] = "got"
    /\ attRes[i] = "err"
    /\ lastErr' = i
    /\ cancelInvoked' = IF i \in Initial
                        THEN [cancelInvoked EXCEPT ![i] = TRUE]
                        ELSE cancelInvoked
    /\ attPc' = [attPc EXCEPT ![i] = "defer"]
    /\ UNCHANGED <<asyncNum, asynctimerchan, pc, attRes, cancelFuncs, wg, closerPc,
                   done, respChClosed, timer, resps, retResp, retErr, closed,
                   delivered, clientGone>>
    /\ UNCHANGED dOthers

\* if resp.StatusCode == 200 { delete(cancelFuncs, i) }  (initial attempts only)
WithoutWinner(i) ==
    IF i \in Initial /\ attRes[i] = "r200" THEN cancelFuncs \ {i} ELSE cancelFuncs

\* the attempt reaches respCh <- resp
HandleResp(i) ==
    /\ attPc[i] = "got"
    /\ IsResp(i)
    /\ cancelFuncs' = WithoutWinner(i)
    /\ attPc' = [attPc EXCEPT ![i] = "send"]
    /\ UNCHANGED <<asyncNum, asynctimerchan, pc, attRes, cancelInvoked, wg,
                   closerPc, done, respChClosed, timer, resps, lastErr, retResp,
                   retErr, closed, delivered, clientGone>>
    /\ UNCHANGED dOthers

\* respCh <- resp on the closed channel panics; the deferred recover catches it
SendOnClosed(i) ==
    /\ attPc[i] = "send"
    /\ respChClosed
    /\ attPc' = [attPc EXCEPT ![i] = "defer"]
    /\ UNCHANGED <<asyncNum, asynctimerchan, pc, attRes, cancelFuncs,
                   cancelInvoked, wg, closerPc, done, respChClosed, timer, resps,
                   lastErr, retResp, retErr, closed, delivered, clientGone>>
    /\ UNCHANGED dOthers

\* a goroutine that ends without telling the WaitGroup
WgDoneMissing(w) == w

\* wg.Done()
WgDone(w) == w - 1

\* deferred wg.Done() of an attempt goroutine
AttemptExit(i) ==
    /\ attPc[i] = "defer"
    /\ attPc' = [attPc EXCEPT ![i] = "exit"]
    /\ wg' = WgDone(wg)
    /\ UNCHANGED <<asyncNum, asynctimerchan, pc, attRes, cancelFuncs,
                   cancelInvoked, closerPc, done, respChClosed, timer, resps,
                   lastErr, retResp, retErr, closed, delivered, clientGone>>
    /\ UNCHANGED dOthers

\* for _, cancel := range cancelFuncs { cancel() }
CancelAll == [i \in Attempts |-> cancelInvoked[i] \/ i \in cancelFuncs]

\* timer.Stop(): a value already sent on a buffered timer.C stays there
StopTimer ==
    IF timer = "armed" THEN "stopped"
    ELSE IF timer = "fired" /\ ~asynctimerchan THEN "stopped"
    ELSE timer

\* the deferred loop over resps closing res.Body
CloseAll(rs) == closed \cup Range(rs)

\* case resp, ok := <-respCh, ok = true
RecvResp(i) ==
    /\ pc = "select"
    /\ attPc[i] = "send"
    /\ ~respChClosed
    /\ attPc' = [attPc EXCEPT ![i] = "defer"]
    /\ delivered' = Append(delivered, i)
    /\ IF attRes[i] = "r200"
       THEN /\ timer' = StopTimer
            /\ cancelInvoked' = CancelAll
            /\ retResp' = i
            /\ retErr' = Nil
            /\ closed' = CloseAll(resps)
            /\ pc' = "returned"
            /\ UNCHANGED resps
       ELSE /\ resps' = Append(resps, i)
            /\ UNCHANGED <<timer, cancelInvoked, retResp, retErr, closed, pc>>
    /\ UNCHANGED <<asyncNum, asynctimerchan, attRes, cancelFuncs, wg, closerPc,
                   done, respChClosed, lastErr, clientGone>>
    /\ UNCHANGED dOthers

\* the 5 s timer expires
TimerFire ==
    /\ timer = "armed"
    /\ timer' = "fired"
    /\ UNCHANGED <<asyncNum, asynctimerchan, pc, attPc, attRes, cancelFuncs,
                   cancelInvoked, wg, closerPc, done, respChClosed, resps,
                   lastErr, retResp, retErr, closed, delivered, clientGone>>
    /\ UNCHANGED dOthers

\* case <-timer.C: if asyncNum > 1 { wg.Add(1); go func() {...}() }
RecvTimer ==
    /\ pc = "select"
    /\ timer = "fired"
    /\ timer' = "drained"
    /\ IF EscalationEnabled
       THEN /\ wg' = wg + 1
            /\ attPc' = [attPc EXCEPT ![Esc] = "do"]
       ELSE UNCHANGED <<wg, attPc>>
    /\ UNCHANGED <<asyncNum, asynctimerchan, pc, attRes, cancelFuncs,
                   cancelInvoked, closerPc, done, respChClosed, resps, lastErr,
                   retResp, retErr, closed, delivered, clientGone>>
    /\ UNCHANGED dOthers

\* return resp, lastErr
ReturnedErr == lastErr

\* case <-done
RecvDone ==
    /\ pc = "select"
    /\ done
    /\ cancelInvoked' = CancelAll
    /\ retResp' = IF Len(resps) > 0 THEN Head(resps) ELSE Nil
    /\ resps' = IF Len(resps) > 0 THEN Tail(resps) ELSE resps
    /\ retErr' = ReturnedErr
    /\ closed' = CloseAll(resps')
    /\ pc' = "returned"
    /\ UNCHANGED <<asyncNum, asynctimerchan, attPc, attRes, cancelFuncs, wg,
                   closerPc, done, respChClosed, timer, lastErr, delivered,
                   clientGone>>
    /\ UNCHANGED dOthers

\* wg.Wait() returns
CloserWait ==
    /\ closerPc = "wait"
    /\ wg = 0
    /\ closerPc' = "stop"
    /\ UNCHANGED <<asyncNum, asynctimerchan, pc, attPc, attRes, cancelFuncs,
                   cancelInvoked, wg, done, respChClosed, timer, resps, lastErr,
                   retResp, retErr, closed, delivered, clientGone>>
    /\ UNCHANGED dOthers

\* timer.Stop()
CloserStop ==
    /\ closerPc = "stop"
    /\ timer' = StopTimer
    /\ closerPc' = "closeDone"
    /\ UNCHANGED <<asyncNum, asynctimerchan, pc, attPc, attRes, cancelFuncs,
                   cancelInvoked, wg, done, respChClosed, resps, lastErr,
                   retResp, retErr, closed, delivered, clientGone>>
    /\ UNCHANGED dOthers

\* close(done)
CloserCloseDone ==
    /\ closerPc = "closeDone"
    /\ done' = TRUE
    /\ closerPc' = "closeResp"
    /\ UNCHANGED <<asyncNum, asynctimerchan, pc, attPc, attRes, cancelFuncs,
                   cancelInvoked, wg, respChClosed, timer, resps, lastErr,
                   retResp, retErr, closed, delivered, clientGone>>
    /\ UNCHANGED dOthers

\* close(respCh); close(errCh)
CloserCloseResp ==
    /\ closerPc = "closeResp"
    /\ respChClosed' = TRUE
    /\ closerPc' = "end"
    /\ UNCHANGED <<asyncNum, asynctimerchan, pc, attPc, attRes, cancelFuncs,
                   cancelInvoked, wg, done, timer, resps, lastErr, retResp,
                   retErr, closed, delivered, clientGone>>
    /\ UNCHANGED dOthers

\* the caller's client disconnects: c.Request.Context() is cancelled
ClientDisconnect ==
    /\ ~clientGone
    /\ clientGone' = TRUE
    /\ UNCHANGED <<asyncNum, asynctimerchan, pc, attPc, attRes, cancelFuncs,
                   cancelInvoked, wg, closerPc, done, respChClosed, timer, resps,
                   lastErr, retResp, retErr, closed, delivered>>
    /\ UNCHANGED dOthers

DNext ==
    \/ \E i \in Attempts : Launch(i)
    \/ StartLoop
    \/ \E i \in Attempts, o \in Outcomes : DoReturn(i, o)
    \/ \E i \in Attempts : HandleErr(i)
    \/ \E i \in Attempts : HandleResp(i)
    \/ \E i \in Attempts : SendOnClosed(i)
    \/ \E i \in Attempts : AttemptExit(i)
    \/ \E i \in Attempts : RecvResp(i)
    \/ TimerFire
    \/ RecvTimer
    \/ RecvDone
    \/ CloserWait
    \/ CloserStop
    \/ CloserCloseDone
    \/ CloserCloseResp
    \/ ClientDisconnect

InitDispatch == DInit /\ EIdle /\ SIdle /\ RtIdle /\ RIdle /\ QIdle /\ CIdle /\ LIdle /\ WIdle /\ NewIdle

SpecDispatch == InitDispatch /\ [][DNext]_vars

\* the dispatcher when every call of timeoutHTTPClient.Do comes back and the
\* Go scheduler runs every goroutine that can take a step; a select with
\* several ready cases picks among them at random, so a case that stays ready
\* is taken. The timer and the client's disconnection are left to chance.
LiveDispatch ==
    /\ InitDispatch
    /\ [][DNext]_vars
    /\ \A i \in Attempts :
          /\ WF_vars(Launch(i))
          /\ WF_vars(\E o \in Outcomes : DoReturn(i, o))
          /\ WF_vars(HandleErr(i))
          /\ WF_vars(HandleResp(i))
          /\ WF_vars(SendOnClosed(i))
          /\ WF_vars(AttemptExit(i))
          /\ WF_vars(RecvResp(i))
    /\ WF_vars(StartLoop)
    /\ WF_vars(RecvDone)
    /\ WF_vars(CloserWait)
    /\ WF_vars(CloserStop)
    /\ WF_vars(CloserCloseDone)
    /\ WF_vars(CloserCloseResp)

InitElection == EInit /\ DIdle /\ SStarted /\ RtIdle /\ RIdle /\ QIdle /\ CIdle /\ LIdle /\ WIdle /\ NewIdle

SpecElection == InitElection /\ [][ENext]_vars

\* The election while Redis stays reachable and every follower keeps running
\* its loop: calls succeed at the transport level, and only a leader freezes,
\* at some point of its sleep.
IterateOk(n) == Iterate(n, "ok")

FreezeLeader(n) == isLeader[n] /\ ~Due(n) /\ Freeze(n)

ENextLive ==
    \/ \E n \in Nodes : IterateOk(n)
    \/ Tick
    \/ \E n \in Nodes : FreezeLeader(n)
    \/ \E n \in Nodes : Thaw(n)
    \/ \E n \in Nodes : Crash(n)

\* time advances and a running node that is due runs its iteration; a frozen
\* process may stay frozen for ever
LiveElection ==
    /\ InitElection
    /\ [][ENextLive]_vars
    /\ SF_vars(Tick)
    /\ \A n \in Nodes : WF_vars(IterateOk(n))

\* the election from process start: every process calls StartLeaderElection
\* once, at any time, under its own configuration
InitStart == EInit /\ DIdle /\ SInit /\ RtIdle /\ RIdle /\ QIdle /\ CIdle /\ LIdle /\ WIdle /\ NewIdle

StartNext ==
    \/ \E n \in Nodes : StartLeaderElection(n)
    \/ \E n \in Nodes : IterateOk(n)
    \/ Tick

SpecStart == InitStart /\ [][StartNext]_vars

\* messages of every origin and text, the configuration unchanged
InitSync == RtInit /\ DIdle /\ EIdle /\ SIdle /\ RIdle /\ QIdle /\ CIdle /\ LIdle /\ WIdle /\ NewIdle

SpecSync == InitSync /\ [][SyncNext]_vars

\* messages of separator-free origins while the configuration changes
InitReload ==
    /\ RtInit
    /\ InstanceID \in PlainIds \ {<<>>}
    /\ DIdle /\ EIdle /\ SIdle /\ RIdle /\ QIdle /\ CIdle /\ LIdle /\ WIdle /\ NewIdle

SpecReload == InitReload /\ [][ReloadNext]_vars

\* one relay call, from the quota check to the end of its settlement
InitRelay == RInit /\ DIdle /\ EIdle /\ SIdle /\ RtIdle /\ QIdle /\ CIdle /\ LIdle /\ WIdle /\ NewIdle

SpecRelay == InitRelay /\ [][RNext]_vars

\* one relay call from its first line: the request steps, then the quota steps
InitRequest == QInit /\ RBind /\ DIdle /\ EIdle /\ SIdle /\ RtIdle /\ CIdle /\ LIdle /\ WIdle /\ NewIdle

RequestNext == QNext \/ RNext

SpecRequest == InitRequest /\ [][RequestNext]_vars

\* administrative operations on the channel table, in any order
InitChannels ==
    CInit /\ DIdle /\ EIdle /\ SIdle /\ RtIdle /\ RIdle /\ QIdle /\ LIdle /\ WIdle /\ NewIdle

SpecChannels == InitChannels /\ [][CNext]_vars

\* the goroutines of MaxCalls relay calls on one token, in any interleaving
InitLedger ==
    LInit /\ DIdle /\ EIdle /\ SIdle /\ RtIdle /\ RIdle /\ QIdle /\ CIdle /\ WIdle /\ NewIdle

SpecLedger == InitLedger /\ [][LNext]_vars

\* StartRealtimeSync has returned with Redis enabled: the subscription exists,
\* the subscriber goroutine and the warm-up goroutine have been started
InitWarm ==
    /\ RtInit
    /\ InstanceID \in PlainIds \ {<<>>}
    /\ WInit
    /\ DIdle /\ EIdle /\ SIdle /\ RIdle /\ QIdle /\ CIdle /\ LIdle /\ NewIdle

SpecWarm == InitWarm /\ [][WarmNext]_vars

OldIdle ==
    DIdle /\ EIdle /\ SIdle /\ RtIdle /\ RIdle /\ QIdle /\ CIdle /\ LIdle /\ WIdle

\* MaxCallers concurrent calls of GetEnableChannels against one Redis
InitCache == GInit /\ XIdle /\ UIdle /\ OldIdle

SpecCache == InitCache /\ [][GNext]_vars

\* the two goroutines of StartRealtimeSync while peers publish
InitExclusion == XInit /\ GIdle /\ UIdle /\ OldIdle

SpecExclusion == InitExclusion /\ [][XNext]_vars

\* MaxCalls concurrent relay calls of one user
InitUserQuota == UInit /\ GIdle /\ XIdle /\ OldIdle

SpecUserQuota == InitUserQuota /\ [][UNext]_vars

\* the relay call with a ledger that answers its goroutines: every started
\* refund and settlement goroutine runs and its PostConsumeTokenQuota succeeds
RNextLive ==
    \/ \E ok \in BOOLEAN : GetUserQuota(ok)
    \/ \E ok \in BOOLEAN : DecreaseUserQuota(ok)
    \/ \E ok \in BOOLEAN : PreConsumeToken(ok)
    \/ \E ok \in BOOLEAN : BuildRequest(ok)
    \/ \E o \in DispatchOutcomes : Dispatch(o)
    \/ \E ok \in BOOLEAN, p \in TokenCounts, c \in TokenCounts : HandleResponse(ok, p, c)
    \/ Refund(TRUE)
    \/ \E okCache \in BOOLEAN : Settle(TRUE, okCache)

LiveRelay ==
    /\ InitRelay
    /\ [][RNextLive]_vars
    /\ WF_vars(Refund(TRUE))
    /\ WF_vars(\E okCache \in BOOLEAN : Settle(TRUE, okCache))

(* ---------------------------------------------------------------------- *)
(* Properties of the racing dispatcher                                     *)
(* ---------------------------------------------------------------------- *)
Returned == pc = "returned"
Winner == Returned /\ Is200(retResp)

\* C1: a returned status-200 response is the first status-200 response the
\* dispatcher loop received, and a non-200 response or an error is returned
\* only when no launched attempt ever obtains a status-200 response.
C1_FirstOkWins ==
    Returned =>
        /\ Is200(retResp) =>
              \E k \in 1..Len(delivered) :
                  /\ delivered[k] = retResp
                  /\ \A j \in 1..(k - 1) : attRes[delivered[j]] # "r200"
        /\ ~Is200(retResp) => \A i \in Attempts : attRes[i] # "r200"

\* C2: once a winner is returned, every response obtained by another attempt
\* has had its body closed; none is left unclosed or stuck undelivered.
C2_LosersClosed ==
    Winner => \A i \in Attempts \ {retResp} : IsResp(i) => i \in closed

\* C3: the winner's cancel function is never invoked, and every other attempt
\* still in flight when the winner is returned has been cancelled.
C3_LosersCancelled ==
    Winner =>
        /\ ~cancelInvoked[retResp]
        /\ \A i \in Attempts \ {retResp} : attPc[i] = "do" => CtxDone(i)

\* C4: without a 200 (every attempt having ended with a response or a
\* transport error) the dispatcher returns the first queued non-200 response
\* when some attempt delivered one and the last transport error only when none
\* did; never both a response and an error, never neither.
C4_FallbackXorError ==
    (Returned /\ ~Is200(retResp) /\ \A i \in Attempts : attRes[i] # "panic") =>
        /\ ~(retResp # Nil /\ retErr # Nil)
        /\ ~(retResp = Nil /\ retErr = Nil)
        /\ Len(delivered) > 0 => retResp = delivered[1]
        /\ retErr # Nil => (Len(delivered) = 0 /\ retErr = lastErr)

\* C5: when the loop takes the timer case with N > 1 exactly one escalation
\* attempt is launched, at most N + 1 attempts are launched in all, and the
\* escalation is launched neither after a winner was chosen nor after the
\* attempts were declared done (wg.Wait has returned).
C5_Escalation ==
    [][ /\ (pc = "select" /\ timer = "fired" /\ timer' = "drained" /\ asyncNum > 1)
            => (attPc[Esc] = "idle" /\ attPc'[Esc] = "do")
        /\ (attPc[Esc] = "idle" /\ attPc'[Esc] # "idle")
            => (pc = "select" /\ closerPc = "wait")
        /\ Cardinality({i \in Attempts : attPc'[i] # "idle"}) <= asyncNum + 1
      ]_vars

C7_DisconnectCancels ==
    (clientGone /\ ~Returned) =>
        \A i \in Attempts : attPc[i] = "do" => CtxDone(i)

(* ---------------------------------------------------------------------- *)
(* Properties of the leader election                                       *)
(* ---------------------------------------------------------------------- *)
Alive == {n \in Nodes : ~crashed[n]}
Masters == {n \in Alive : IsMasterNode[n]}

\* n runs a loop iteration in this step
Iterated(n) == ~crashed'[n] /\ age[n] > 0 /\ age'[n] = 0

\* every live node's IsMasterNode is the role its election loop gave it
Settled == \A n \in Alive : IsMasterNode[n] = isLeader[n]

\* C8: TTL + renew_interval or more after the last change of lease ownership
\* at most one node has IsMasterNode = true (the lease being held, and every
\* node's flag being the one its loop has set).
C8_SingleMaster ==
    (sinceChange >= Horizon /\ kvVal # Nil /\ Settled) => Cardinality(Masters) <= 1

\* C8 (amended): TTL + renew_interval or more after the last change of lease
\* ownership at most one of the nodes that ran a loop iteration less than
\* TTL + renew_interval ago has IsMasterNode = true.
C8_SingleMasterOnSchedule ==
    sinceChange >= Horizon =>
        Cardinality({n \in Masters : age[n] < Horizon}) <= 1

\* two live nodes on schedule, one of them master, long after the last change
C8_Witness ==
    /\ sinceChange >= Horizon
    /\ Cardinality(Alive) >= 2
    /\ \A n \in Alive : age[n] < Horizon
    /\ Cardinality(Masters) = 1
    /\ \E n \in Masters : kvVal = n

\* C9: a renewal by a node that does not own the lease (key absent or another
\* node's identity) returns 0 - the node demotes itself - and leaves the key,
\* its value and its TTL unchanged; the lease value is written only by a
\* set-if-absent that found the key absent.
C9_NoRevive ==
    [][ /\ \A n \in Nodes :
              (Iterated(n) /\ isLeader[n] /\ kvVal # n)
                  => (kvVal' = kvVal /\ kvTtl' = kvTtl /\ ~isLeader'[n]
                      /\ ~IsMasterNode'[n])
        /\ (kvVal' # kvVal /\ kvVal' # Nil)
              => \E n \in Nodes :
                    /\ Iterated(n)
                    /\ ~isLeader[n]
                    /\ kvVal = Nil
                    /\ kvVal' = n
                    /\ kvTtl' = leaseTTL
      ]_vars

\* a node that still takes itself for the leader is about to renew a lease
\* that another node holds
C9_Witness ==
    \E n \in Nodes :
        /\ Running(n)
        /\ Due(n)
        /\ isLeader[n]
        /\ kvVal \notin {Nil, n}

\* l has stopped renewing: it holds the lease and has crashed, or it is
\* frozen as leader (its lease running out or run out)
LeaderGone(l) ==
    \/ kvVal = l /\ crashed[l]
    \/ kvVal \in {l, Nil} /\ isLeader[l] /\ frozen[l]

OthersRunning(l) == \E o \in Nodes \ {l} : Running(o)

TakenOver(l) == \E o \in Nodes \ {l} : kvVal = o /\ IsMasterNode[o]

\* C10: the lease of a leader runs out TTL after its last successful renewal;
\* when the leader stops renewing (it crashed holding the lease, or is
\* frozen) while another node runs its loop, then - for as long as the leader
\* stays stopped and some other node keeps running - another node eventually
\* acquires leadership by set-if-absent.
C10_Failover ==
    /\ [](kvVal # Nil => kvTtl \in 1..leaseTTL)
    /\ [](\A l \in Nodes : (kvVal = l /\ isLeader[l]) => kvTtl = leaseTTL - age[l])
    /\ \A l \in Nodes :
          (LeaderGone(l) /\ OthersRunning(l))
              ~> (TakenOver(l) \/ Running(l) \/ ~OthersRunning(l))

\* a leader froze, its lease ran out and another node has taken the lease
C10_Witness ==
    \E l \in Nodes :
        /\ frozen[l]
        /\ isLeader[l]
        /\ TakenOver(l)

\* StartLeaderElection returned in process n without starting the loop
Disabled(n) == electionLoop[n] = "returned"

\* C11: with the KV not enabled, or leader_election.enable explicitly false,
\* or no KV client, StartLeaderElection starts no loop; a process without
\* loop never writes its IsMasterNode nor the lease key.
C11_DisabledElection ==
    [][ \A n \in Nodes :
          /\ ( /\ electionLoop[n] = "notCalled"
               /\ electionLoop'[n] # "notCalled"
               /\ (~RedisEnabled[n] \/ enableFlag[n] = "false" \/ ~clientReady[n]) )
                 => Disabled(n)'
          /\ (electionLoop[n] # "running" /\ ~crashed'[n])
                 => /\ IsMasterNode'[n] = IsMasterNode[n]
                    /\ ~isLeader'[n]
                    /\ (kvVal' = n => kvVal = n)
                    /\ kvVal # n
          /\ Disabled(n) => Disabled(n)'
      ]_vars

\* a process whose election is disabled by the flag keeps IsMasterNode = true
\* while another process holds the lease
C11_Witness ==
    \E n \in Nodes :
        /\ Disabled(n)
        /\ RedisEnabled[n] /\ clientReady[n] /\ enableFlag[n] = "false"
        /\ IsMasterNode[n]
        /\ \E o \in Nodes \ {n} : kvVal = o /\ IsMasterNode[o]

\* the last message came from this very process
FromSelf == msgOrigin = InstanceID

\* C12: a message whose origin instance id is the receiver's own InstanceID
\* invokes no reload, whatever the id and the payload; a message from another
\* origin invokes the reload of its topic.
C12_SelfOriginSuppressed ==
    (msgChannel # "none" /\ syncPc # "backoff") =>
        /\ FromSelf => calls = <<>>
        /\ ~FromSelf =>
              calls[1] = (IF msgChannel = "options_sync"
                          THEN "ReloadOptions" ELSE "ChannelGroup.Load")

\* the reload a topic stands for
ReloadOf(topic) ==
    IF topic = "options_sync" THEN "ReloadOptions" ELSE "ChannelGroup.Load"

\* C13: a panic inside a reload is swallowed: the subscriber loop never ends,
\* and once a reload has panicked every message then received from another
\* origin (its id free of the separator) still invokes the reload of its topic.
C13_PanicContained ==
    /\ [](syncPc # "dead")
    /\ [][ ( /\ everPanicked
             /\ <<msgOrigin, msgPayload, msgChannel, calls, panics>>'
                   # <<msgOrigin, msgPayload, msgChannel, calls, panics>>
             /\ msgOrigin' \in PlainIds
             /\ msgOrigin' # InstanceID )
           => (calls' # <<>> /\ calls'[1] = ReloadOf(msgChannel')) ]_vars

\* after an earlier reload panicked, a message from another origin has been
\* handled and its reload ran without panic
C13_Witness ==
    /\ everPanicked
    /\ panics = {}
    /\ msgOrigin \in PlainIds
    /\ msgOrigin # InstanceID
    /\ calls = <<"ChannelGroup.Load", "Pricing.Init", "ModelOwnedBys.Load">>

\* the last message was a channels_sync message of another origin
ForeignChannels == msgChannel = "channels_sync" /\ msgOrigin # InstanceID

\* everything safeReloadChannels calls when nothing panics
AllChannelsCalls ==
    <<"ChannelGroup.Load">>
      \o (IF pricingPresent THEN <<"Pricing.Init">> ELSE <<>>)
      \o (IF ownedByPresent THEN <<"ModelOwnedBys.Load">> ELSE <<>>)

DerivedFresh ==
    /\ pricingPresent => pricingVer >= channelVer
    /\ ownedByPresent => ownedByVer >= channelVer

AfterPreconsumeErrors ==
    {"marshal_text_request_failed", "do_request_failed", "upstream_error",
     "handler_error"}

\* the call returned an error after PreConsumeTokenQuota took a non-zero amount
FailedAfterPreconsume ==
    /\ relayPc = "returned"
    /\ relayErr \in AfterPreconsumeErrors
    /\ preConsumedQuota > 0

\* C15: every relay call that fails after a non-zero preconsumption ran
\* (transport error, upstream non-200, marshal error, handler error) eventually
\* has the token's remaining quota back at its value before the call.
C15_RefundOnFailure == FailedAfterPreconsume ~> (tokenRemain = tokenRemain0)

Ratio == modelRatio * groupRatio

TotalTokens == usagePrompt + usageCompletion

\* (prompt + completion x completion_ratio) x ratio, as a fraction Num / Den
RawNum == (usagePrompt * RatioDen + usageCompletion * completionRatio) * Ratio

RawDen == RatioDen * RatioDen * RatioDen

\* q is the ceiling of RawNum / RawDen
IsCeil(q) == q * RawDen >= RawNum /\ (q - 1) * RawDen < RawNum

SettledOk == settlePc = "done" /\ relayErr = "none"

\* C16: for every successful relay call the settled quota is never negative, is
\* exactly 1 whenever ratio > 0, total_tokens > 0 and the ceiling is 0, and
\* otherwise equals ceil((prompt_tokens + completion_tokens x completion_ratio)
\* x ratio).
C16_SettlementAmount ==
    SettledOk =>
        /\ quota >= 0
        /\ IF Ratio > 0 /\ TotalTokens > 0 /\ IsCeil(0)
           THEN quota = 1
           ELSE IsCeil(quota)

\* a successful call whose tokens cost nothing at a non-zero ratio was billed 1
C16_Witness ==
    SettledOk /\ Ratio > 0 /\ TotalTokens > 0 /\ IsCeil(0) /\ quota = 1

\* C17: a settlement whose usage has total_tokens = 0 computes quota 0 whatever
\* the ratio is, and the delta the ledger applies to the token is exactly minus
\* the preconsumed amount.
C17_ZeroTokenSettlement ==
    [][ (settlePc = "pending" /\ settlePc' = "done" /\ TotalTokens = 0) =>
            /\ quota' = 0
            /\ "token" \in touched' => tokenRemain' = tokenRemain + preConsumedQuota
      ]_vars

\* a zero-token settlement at a non-zero ratio gave a non-zero preconsumed
\* amount back to the token
C17_Witness ==
    /\ settlePc = "done"
    /\ TotalTokens = 0
    /\ Ratio > 0
    /\ preConsumedQuota > 0
    /\ quota = 0
    /\ "token" \in touched
    /\ tokenRemain = tokenRemain0

AllFour == {"token", "userUsed", "channelUsed", "log"}

\* C18 as stated: every settlement that runs, for every value of the computed
\* quota, updates the token's remaining quota, the user's used-quota, the
\* channel's used-quota and writes a consume-log record.
C18_AllFourUpdated == settlePc = "done" => touched = AllFour

\* C18: every settlement whose computed quota is not 0 writes one consume-log
\* record and adds the quota to the user's and the channel's used-quota, and
\* applies quota - preconsumed to the token when the ledger call succeeds; a
\* settlement whose quota is 0 touches none of the three and only gives the
\* preconsumed amount back to the token.
C18_UpdatedWhenBilled ==
    settlePc = "done" =>
        /\ quota # 0 =>
              /\ AllFour \ {"token"} \subseteq touched
              /\ consumeLogs = <<quota>>
              /\ userUsed = quota
              /\ channelUsed = quota
        /\ quota = 0 =>
              /\ touched \subseteq {"token"}
              /\ consumeLogs = <<>>
              /\ userUsed = 0
              /\ channelUsed = 0
        /\ "token" \in touched => tokenRemain = tokenRemain0 - quota

\* a settlement with quota 0 ran after a non-zero preconsumption and wrote no log
C18_Witness ==
    /\ settlePc = "done"
    /\ quota = 0
    /\ preConsumedQuota > 0
    /\ touched = {"token"}
    /\ consumeLogs = <<>>

BeforeDispatch == relayPc \in {"decreased", "preconsumed", "built"}

\* C19: whenever the cached user quota is at least 100 times the computed
\* preconsume amount, the preconsumed amount is recorded as 0 and, before
\* dispatch, neither the user's cached quota nor the token's remaining quota
\* has been reduced.
C19_TrustedSkip ==
    (BeforeDispatch /\ userQuota >= TrustFactor * Amount) =>
        /\ preConsumedQuota = 0
        /\ userCache = userCache0
        /\ tokenRemain = tokenRemain0

QuotaExceeded == {"insufficient_user_quota", "pre_consume_token_quota_failed"}

\* C20: when preconsumption succeeds both the user's cached quota and the
\* token's remaining quota were decremented by the preconsume amount; when it
\* fails with insufficient_user_quota or pre_consume_token_quota_failed no
\* upstream request is dispatched and both counters are at their values before
\* the call.
C20_AllOrNothing ==
    /\ (relayPc = "preconsumed" /\ preConsumedQuota > 0) =>
          /\ userCache = userCache0 - preConsumedQuota
          /\ tokenRemain = tokenRemain0 - preConsumedQuota
    /\ relayErr \in QuotaExceeded =>
          /\ ~sent
          /\ userCache = userCache0
          /\ tokenRemain = tokenRemain0

(* ---------------------------------------------------------------------- *)
(* Properties of the request relayTextHelper validates and sends upstream   *)
(* ---------------------------------------------------------------------- *)

\* C21: for every request whose model is remapped by the channel's
\* model_mapping, the model ratio used for the preconsume and the completion
\* ratio used for the settlement are those of the original requested model
\* name, while the outbound body carries the mapped name.
C21_PricedByOriginalName ==
    (isModelMapped /\ sent) =>
        /\ modelRatio = GetModelRatio(reqModel)
        /\ completionRatio = GetCompletionRatio(reqModel)
        /\ OutBodyModel = ModelMap(reqModel)

\* C22: for every provider type dispatched over HTTP, if the inbound
\* Authorization bearer contains the substring "ignore", the request sent
\* upstream carries no Authorization header.
C22_IgnoreStripsAuthorization ==
    (sent /\ Contains(Get(inAuth), Ignore)) => OutAuthorization = Absent

\* C23: on an Azure channel the request sent upstream carries the credential
\* in the api-key header and carries no Authorization header, whether or not
\* the bearer contains "ignore".
C23_AzureApiKeyOnly ==
    (sent /\ channelType = "Azure") =>
        /\ OutApiKey = TrimPrefix(Get(inAuth), Bearer)
        /\ OutAuthorization = Absent

DateSuffixes ==
    {<<"-", "0", "3", "0", "1">>, <<"-", "0", "3", "1", "4">>, <<"-", "0", "6", "1", "3">>}

SentToAzure == sent /\ channelType = "Azure"

ChatPath(deployment) == <<"/openai/deployments/">> \o deployment \o <<"/", "chat/completions">>

Invalid ==
    /\ relayPc # "bind"
    /\ relayErr # "bind_request_body_failed"
    /\ \/ textModel = <<>>
       \/ relayMode = "ChatCompletions" /\ fieldEmpty
       \/ relayMode = "Completions" /\ fieldEmpty
       \/ relayMode = "Moderations" /\ fieldEmpty
       \/ relayMode = "Edits" /\ fieldEmpty

\* C27: a request with no model after the Moderations and Embeddings defaults,
\* or ChatCompletions with empty messages, Completions with empty prompt,
\* Moderations with empty input, or Edits with empty instruction, is rejected
\* with required_field_missing before any quota counter is changed and before
\* any upstream request is dispatched.
C27_RequestValidation ==
    Invalid =>
        /\ relayPc = "returned"
        /\ relayErr = "required_field_missing"
        /\ ~sent
        /\ userCache = userCache0
        /\ tokenRemain = tokenRemain0
        /\ refundPc = "none"
        /\ settlePc = "none"

\* an Edits request with a model and an empty instruction was rejected
C27_Witness ==
    /\ relayErr = "required_field_missing"
    /\ relayMode = "Edits"
    /\ fieldEmpty
    /\ textModel # <<>>

(* ---------------------------------------------------------------------- *)
(* Properties of the channel table and its ability index                    *)
(* ---------------------------------------------------------------------- *)

\* C25: after each channel operation completes, in any sequence of Insert,
\* BatchInsertChannels, Update, Delete, UpdateChannelStatusById,
\* DeleteChannelByStatus and DeleteDisabledChannel whose database calls all
\* succeed, the ability rows are exactly those derived from the channel table:
\* none refers to a deleted channel, every channel has its abilities, and an
\* ability is enabled iff its channel is enabled.
C25_AbilitiesDerived ==
    ~dbFailed => abilities = AllAbilities(chanStatus, chanModels)

(* ---------------------------------------------------------------------- *)
(* Properties of concurrent settlements                                     *)
(* ---------------------------------------------------------------------- *)

RECURSIVE SumDeltas(_)
SumDeltas(S) ==
    IF S = {} THEN 0
    ELSE LET i == CHOOSE x \in S : TRUE
         IN callDelta[i] + SumDeltas(S \ {i})

Applied == {i \in Calls : callPc[i] = "done"}

\* C26: in every interleaving of the concurrent settlements and refunds on one
\* token, the persisted remaining quota equals the initial value minus the sum
\* of the deltas applied so far, and so does it after all have completed: no
\* update is lost.
C26_SettlementsLinearize == ledgerRemain = ledgerInit - SumDeltas(Applied)

\* two goroutines that both started before either one's update have both
\* applied a non-zero delta
C26_Witness ==
    /\ Applied = Calls
    /\ \A i \in Calls : callSeen[i] = ledgerInit /\ callDelta[i] # 0

(* ---------------------------------------------------------------------- *)
(* Role transitions of the election loop                                    *)
(* ---------------------------------------------------------------------- *)

\* what an iteration of a follower may do to its role
FollowerStep(n) ==
    /\ isLeader'[n] => (kvVal = Nil /\ kvVal' = n /\ kvTtl' = leaseTTL)
    /\ IsMasterNode'[n] = isLeader'[n]
    /\ kvVal # Nil => ~isLeader'[n]
    /\ (Iterate(n, "ok") /\ kvVal = Nil) => isLeader'[n]
    /\ ~Iterate(n, "ok") => ~isLeader'[n]

\* what an iteration of a leader may do to its role
LeaderStep(n) ==
    /\ isLeader'[n] => (kvVal = n /\ kvTtl' = leaseTTL /\ IsMasterNode'[n] = IsMasterNode[n])
    /\ ~isLeader'[n] => ~IsMasterNode'[n]
    /\ kvVal # n => ~isLeader'[n]
    /\ (Iterate(n, "ok") /\ kvVal = n) => isLeader'[n]
    /\ ~Iterate(n, "ok") => ~isLeader'[n]

\* C28: the role of a live node changes only in an iteration of its loop. A
\* Follower becomes Leader exactly when its set-if-absent of the lease key
\* succeeds; a failed or errored one leaves it Follower with IsMasterNode
\* false. A Leader stays Leader exactly when its renewal returns 1, and is
\* demoted to Follower with IsMasterNode false at the first renewal that
\* returns 0 or fails with a transport error.
C28_RoleTransitions ==
    [][ \A n \in Nodes : ~crashed'[n] =>
            IF ~Iterated(n)
            THEN isLeader'[n] = isLeader[n] /\ IsMasterNode'[n] = IsMasterNode[n]
            ELSE IF isLeader[n] THEN LeaderStep(n) ELSE FollowerStep(n)
      ]_vars

\* a leader that was frozen while another node took the lease has resumed and
\* its renewal has demoted it
C28_Witness ==
    \E n \in Nodes, m \in Nodes :
        /\ n # m
        /\ lastDemoted = n
        /\ ~isLeader[n] /\ ~IsMasterNode[n]
        /\ kvVal = m
        /\ isLeader[m]

(* ---------------------------------------------------------------------- *)
(* Properties of the warm load                                              *)
(* ---------------------------------------------------------------------- *)

\* the subscriber has processed a pub/sub message
Processed == msgChannel # "none"

\* C29: on startup with the KV enabled, the one-shot warm load of options and
\* channels has completed before the subscriber processes any pub/sub
\* message, and it runs exactly once.
C29_WarmLoadFirst ==
    /\ Processed => warmPc = "done"
    /\ warmRuns <= 1
    /\ warmPc = "done" => warmRuns = 1

(* ---------------------------------------------------------------------- *)
(* Properties of the dispatcher's request bodies                            *)
(* ---------------------------------------------------------------------- *)

\* the attempts whose timeoutHTTPClient.Do has read its request's body
Sent == {i \in Attempts : attRes[i] # "none"}

\* C30: every attempt the dispatcher launches, the N initial attempts and the
\* escalation attempt alike, sends the complete buffered request body, each
\* from its own fresh reader positioned at the start, for N = 1 and for N > 1.
C30_BodyReplay ==
    /\ \A i \in Sent : attBody[i] = bodyBytes
    /\ \A i \in Sent, j \in Sent : i # j => BodyReader(i) # BodyReader(j)

(* ---------------------------------------------------------------------- *)
(* Properties of a panicking attempt                                        *)
(* ---------------------------------------------------------------------- *)

\* the attempts whose timeoutHTTPClient.Do panicked
Panicked == {i \in Attempts : attRes[i] = "panic"}

\* C31: a panic inside an attempt is recovered and the attempt still counts
\* as completed (its deferred wg.Done runs), the panicking attempt contributes
\* no response, a 200 of another attempt is still returned, and when no
\* attempt produces a response the dispatcher reports an error to its caller.
C31_PanicIsHardFailure ==
    /\ \A i \in Panicked :
          /\ attPc[i] \in {"defer", "exit"}
          /\ \A k \in 1..Len(delivered) : delivered[k] # i
          /\ retResp # i
    /\ (Returned /\ Panicked # {} /\ \E i \in Attempts : attRes[i] = "r200")
          => Is200(retResp)
    /\ (Returned /\ Panicked # {} /\ retResp = Nil) => retErr # Nil

(* ---------------------------------------------------------------------- *)
(* Properties of the preconsume amount                                      *)
(* ---------------------------------------------------------------------- *)

\* the token estimate of the call
TokenEstimate == IF maxTokens = 0 THEN PreConsumedQuota ELSE promptTokens + maxTokens

\* a is TokenEstimate x model_ratio x group_ratio truncated to an integer
IsTruncated(a) ==
    /\ a * RatioDen * RatioDen <= TokenEstimate * Ratio
    /\ TokenEstimate * Ratio < (a + 1) * RatioDen * RatioDen

\* the step in which the cached user quota was read and checked
QuotaChecked ==
    /\ relayPc = "start"
    /\ relayPc' # "start"
    /\ relayErr' # "get_user_quota_failed"

\* C32: the token estimate is prompt_tokens + max_tokens when max_tokens is
\* non-zero and the configured PreConsumedQuota floor when max_tokens = 0; the
\* preconsume amount is that estimate multiplied by model_ratio x group_ratio,
\* truncated to an integer; and the request is rejected as insufficient
\* exactly when the cached user quota is smaller than this amount.
C32_PreconsumeAmount ==
    [][ QuotaChecked =>
            /\ IsTruncated(preConsumedQuota)
            /\ (relayErr' = "insufficient_user_quota") <=> (userCache < preConsumedQuota)
            /\ relayErr' # "insufficient_user_quota" => relayPc' = "checked"
      ]_vars

\* a request with max_tokens set whose amount was truncated passed the check
\* with a cached user quota equal to the amount
C32_Witness ==
    /\ relayPc = "checked"
    /\ maxTokens # 0
    /\ (TokenEstimate * Ratio) % (RatioDen * RatioDen) # 0
    /\ preConsumedQuota > 0
    /\ userQuota = preConsumedQuota
    /\ userCache = userQuota

(* ---------------------------------------------------------------------- *)
(* Properties of the channel-cache refresh lock                             *)
(* ---------------------------------------------------------------------- *)

\* the callers between acquiring the lock and releasing it
Inside == {c \in Callers : getPc[c] \in {"locked", "populate", "release"}}

\* C33: across concurrent GetEnableChannels callers at most one caller at a
\* time is between acquiring the lock and releasing it; a caller releases only
\* a lock it itself still holds; and a caller that fails to get the lock or
\* gets a KV error reads the database directly without writing the cache.
C33_RefreshLock ==
    /\ Cardinality(Inside) <= 1
    /\ releasedOthers = {}
    /\ \A c \in Callers : getPath[c] = "db" => c \notin wroteCache

(* ---------------------------------------------------------------------- *)
(* Properties of the lease arithmetic                                       *)
(* ---------------------------------------------------------------------- *)

\* C34: for every configured lease_seconds the renew interval is strictly
\* smaller than the lease TTL, so a leader that runs its renewals on schedule
\* against a reachable KV never has its lease expire and is never demoted.
C34_LeaseStability ==
    /\ renewInterval < leaseTTL
    /\ \A n \in Nodes : isLeader[n] => kvVal = n
    /\ lastDemoted = Nil

(* ---------------------------------------------------------------------- *)
(* Termination of the racing dispatcher and of its goroutines               *)
(* ---------------------------------------------------------------------- *)

\* C35: for every N >= 1, if every launched attempt eventually completes
\* (response, transport error or panic), asyncHTTPDo eventually returns: the
\* dispatcher loop never deadlocks or spins forever.
C35_Termination == <>Returned

\* a call with N > 1 returned through the done case after the escalation
\* attempt and every initial attempt had ended without a 200
C35_Witness ==
    /\ Returned
    /\ asyncNum > 1
    /\ done
    /\ attPc[Esc] = "exit"
    /\ \A i \in Initial : attPc[i] = "exit" /\ attRes[i] \in {"r500", "err", "panic"}
    /\ attRes[Esc] \in {"r500", "err", "panic"}

\* every started attempt goroutine and the wg.Wait goroutine have ended
AllEnded ==
    /\ \A i \in Attempts : attPc[i] \in {"idle", "exit"}
    /\ closerPc = "end"

\* no attempt is at respCh <- resp with respCh closed
NoSendOnClosed == \A i \in Attempts : ~(attPc[i] = "send" /\ respChClosed)

\* C36: after asyncHTTPDo has returned, with a winner or with a fallback,
\* every attempt goroutine and the wait/close goroutine eventually terminate:
\* none stays blocked for ever sending its response on the unbuffered response
\* channel, and none sends on an already closed channel.
C36_NoStuckTask == (Returned ~> AllEnded) /\ []NoSendOnClosed

(* ---------------------------------------------------------------------- *)
(* Properties of the reloads of the two realtime-sync goroutines            *)
(* ---------------------------------------------------------------------- *)

\* the goroutines that are inside safeReloadOptions / safeReloadChannels
Executing(reload) ==
    (IF warmTask = reload THEN {"warm"} ELSE {})
        \cup (IF subTask = reload THEN {"subscriber"} ELSE {})

\* C37: on one node at most one reload of the channel group index, and at
\* most one reload of options, is executing at any time: the startup
\* warm-load task and the subscriber loop never run the same reload
\* concurrently.
C37_ReloadExclusion ==
    /\ Cardinality(Executing("inChannels")) <= 1
    /\ Cardinality(Executing("inOptions")) <= 1

(* ---------------------------------------------------------------------- *)
(* Properties of the adjustments after the preconsumption                  *)
(* ---------------------------------------------------------------------- *)

\* the call went past the PreConsumeTokenQuota step (taken or skipped for a
\* trusted caller), has returned, and no goroutine it started is still to run
CallOver ==
    /\ relayPc = "returned"
    /\ relayErr \in AfterPreconsumeErrors \cup {"none"}
    /\ refundPc # "pending"
    /\ settlePc # "pending"

\* what the call took from the token
NetChange == tokenRemain0 - tokenRemain

\* C38: for every relay call on which the token preconsumption ran or the
\* trusted skip applied, exactly one post-consume adjustment is applied to the
\* token (the error refund or the settlement, never both, never neither), and
\* the token's net change over the call is the settled quota, 0 on failure.
C38_SingleAdjustment ==
    CallOver =>
        /\ (refundPc = "done") # (settlePc = "done")
        /\ NetChange = (IF relayErr = "none" /\ quota # Nil THEN quota ELSE 0)

(* ---------------------------------------------------------------------- *)
(* Properties of the cached user quota under concurrent calls              *)
(* ---------------------------------------------------------------------- *)

\* C39: for any interleaving of concurrent relay calls of one user, the check
\* of the cached user quota against the preconsume amount followed by the
\* cache decrement never drives the cached user quota below zero.
C39_CachedQuotaNonNegative == cachedQuota >= 0

====
